---- MODULE Spec2Model ----
(***************************************************************************)
(* FeitCSI netlink layer: the session (Netlink::nlInit) and the command    *)
(* execution engine (Netlink::nlExecCommand) with its libnl callbacks.     *)
(*                                                                         *)
(* The kernel is the environment: it answers a request with datagrams,     *)
(* each a non-empty sequence of netlink messages.  libnl's recvmsgs() is   *)
(* modelled message by message, as the library dispatches them.            *)
(***************************************************************************)
EXTENDS Integers, Sequences, FiniteSets, TLC

VARIABLES
    pc,         \* position of the (single) control thread
    nlstate,    \* struct nl80211_state: the two handles and the family id
    socks,      \* the socket objects behind the handles
    initFail,   \* the step of nlInit that failed ("none": no step)
    initResult, \* how nlInit ended
    cmd,        \* the Cmd of the exchange in progress (or of the last one)
    rx,         \* RxCtx.err, the loop's err and recvmsgs' multipart flag
    inbuf,      \* messages of the current datagram not yet looked at
    delivered,  \* datagrams read from the socket during this exchange
    log,        \* callbacks run during this exchange, in order
    held,       \* references taken by this nlExecCommand and not yet released
    preErr,     \* what the pre-send handler of this call returned (0: none ran)
    sent,       \* whether nl_send_auto put the request on the socket
    outcome,    \* how the last nlExecCommand ended
    kern,       \* the kernel's wireless interfaces, by name
    interfaces, \* WiFIController::interfaces, the directory
    call,       \* the controller operation in progress or last ended
    cpc,        \* position inside createMonitorInterface / createApInterface
    steps,      \* the calls issued by the operation in progress, in order
    fn,         \* the helper function last applied, its arguments and result
    arguments,  \* Arguments::arguments: the modes the application runs in
    tpc,        \* the application's threads: where each one is
    mpc,        \* position inside MainController::initInterface / restoreState
    interfacesToRestore \* MainController::interfacesToRestore, the restore list

\* The variables of the exchange engine and those of the controller.
nlvars == <<pc, nlstate, socks, initFail, initResult, cmd, rx, inbuf, delivered,
            log, held, preErr, sent, outcome>>

ctlvars == <<kern, interfaces, call, cpc, steps>>

\* The variable of the helper functions and those of the application's threads.
utilvars == <<fn>>

thrvars == <<arguments, tpc>>

\* The variables of the application's start and shutdown.
mainvars == <<mpc, interfacesToRestore>>

vars == <<pc, nlstate, socks, initFail, initResult, cmd, rx, inbuf, delivered,
          log, held, preErr, sent, outcome, kern, interfaces, call, cpc, steps,
          fn, arguments, tpc, mpc, interfacesToRestore>>

(***************************************************************************)
(* Bounds of the model.                                                    *)
(***************************************************************************)
MaxMsgs == 3

(***************************************************************************)
(* Program constants.                                                      *)
(***************************************************************************)
ENOENT == 2
ENOMEM == 12
EBUSY == 16
ENOLINK == 67
EPROTO == 71
ENOBUFS == 105

NL_OK == 0
NL_SKIP == 1
NL_STOP == 2

(***************************************************************************)
(* Session: Netlink::nlInit.                                               *)
(***************************************************************************)
InitFailPoints ==
    {"none", "gnl_alloc", "gnl_connect", "resolve", "rnl_alloc", "rnl_connect"}

\* nl_socket_free(sk): a null handle is left alone, a live object is freed.
nl_socket_free(obj) == IF obj = "none" THEN "none" ELSE "freed"

\* genl_ctrl_resolve: the family id, or a negative libnl code.
genl_ctrl_resolve(ok) == IF ok THEN 28 ELSE -12

\* The generic cleanup with the handle left as it was.
out_handle_destroy_generic_KeepHandle(s, o, e) ==
    [st  |-> s,
     so  |-> [o EXCEPT !.gnl = nl_socket_free(o.gnl)],
     res |-> [kind |-> "ret", val |-> e]]

\* out_handle_destroy_generic: free the generic socket, null its handle,
\* return err.
out_handle_destroy_generic(s, o, e) ==
    [st  |-> [s EXCEPT !.gnl_socket = "null"],
     so  |-> [o EXCEPT !.gnl = nl_socket_free(o.gnl)],
     res |-> [kind |-> "ret", val |-> e]]

\* The route cleanup without the fall-through.
out_handle_destroy_route_Only(s, o, e) ==
    [st  |-> [s EXCEPT !.rnl_socket = "null"],
     so  |-> [o EXCEPT !.rnl = nl_socket_free(o.rnl)],
     res |-> [kind |-> "ret", val |-> e]]

\* out_handle_destroy_route: free the route socket, null its handle, and
\* fall through to out_handle_destroy_generic.
out_handle_destroy_route(s, o, e) ==
    out_handle_destroy_generic([s EXCEPT !.rnl_socket = "null"],
                               [o EXCEPT !.rnl = nl_socket_free(o.rnl)], e)

\* The state nlInit leaves behind and what it reports, by the first step
\* that fails.  st is the nl80211_state before the call and so the objects
\* behind its handles.
nlInit(st, so, fail) ==
    IF fail = "gnl_alloc"
    THEN out_handle_destroy_generic(st, [so EXCEPT !.gnl = "none"], -ENOMEM)
    ELSE IF fail = "gnl_connect"
    THEN out_handle_destroy_generic([st EXCEPT !.gnl_socket = "sock"],
                                    [so EXCEPT !.gnl = "allocated"], -ENOLINK)
    ELSE IF fail = "resolve"
    THEN out_handle_destroy_generic(
             [st EXCEPT !.gnl_socket = "sock",
                        !.nl80211_id = genl_ctrl_resolve(FALSE)],
             [so EXCEPT !.gnl = "connected"], -ENOENT)
    ELSE LET s1 == [st EXCEPT !.gnl_socket = "sock",
                              !.nl80211_id = genl_ctrl_resolve(TRUE)]
             o1 == [so EXCEPT !.gnl = "connected"]
         IN
         IF fail = "rnl_alloc"
         THEN [st  |-> [s1 EXCEPT !.rnl_socket = "null"],
               so  |-> [o1 EXCEPT !.rnl = "none"],
               res |-> [kind |-> "throw", val |-> 0]]
         ELSE IF fail = "rnl_connect"
         THEN out_handle_destroy_route([s1 EXCEPT !.rnl_socket = "sock"],
                                       [o1 EXCEPT !.rnl = "allocated"], -ENOLINK)
         ELSE [st  |-> [s1 EXCEPT !.rnl_socket = "sock"],
               so  |-> [o1 EXCEPT !.rnl = "connected"],
               res |-> [kind |-> "ret", val |-> 0]]

(***************************************************************************)
(* Commands.  id names the nl80211 command; pre and valid name the         *)
(* handlers of the Cmd ("none" is a null pointer).                         *)
(***************************************************************************)
MkCmd(id, idby, dump, pre, valid) ==
    [id |-> id, idby |-> idby, dump |-> dump, pre |-> pre, valid |-> valid]

NoCmd == MkCmd("none", "CIB_NONE", FALSE, "none", "none")

\* The commands WiFIController issues, and two with a caller-supplied reply
\* handler: one that returns NL_SKIP for every message it is shown, one
\* that fails on every message.
Cmds ==
    { MkCmd("GET_INTERFACE", "CIB_NONE",   TRUE,  "none", "getInterfaceInfoHandler"),
      MkCmd("GET_INTERFACE", "CIB_NETDEV", FALSE, "none", "getInterfaceInfoHandler"),
      MkCmd("GET_WIPHY",     "CIB_NETDEV", TRUE,  "none", "getInterfaceInfoTxPowerHandler"),
      MkCmd("SET_WIPHY",     "CIB_NETDEV", FALSE, "setTxPowerHandler", "none"),
      MkCmd("GET_SCAN",      "CIB_WDEV",   TRUE,  "none", "skipHandler"),
      MkCmd("GET_STATION",   "CIB_NETDEV", FALSE, "none", "failHandler") }

(***************************************************************************)
(* Kernel messages.  An ack is an NLMSG_ERROR message with error 0.        *)
(***************************************************************************)
DataMsg(multi, txp) == [type |-> "DATA",  multi |-> multi, txp |-> txp,   code |-> 0]
DoneMsg             == [type |-> "DONE",  multi |-> TRUE,  txp |-> FALSE, code |-> 0]
ErrorMsg(code)      == [type |-> "ERROR", multi |-> FALSE, txp |-> FALSE, code |-> code]
AckMsg              == ErrorMsg(0)

KernelCodes == {-EBUSY, -ENOENT, EBUSY}

Msgs == {DataMsg(mu, tx) : mu \in BOOLEAN, tx \in BOOLEAN}
            \cup {DoneMsg, AckMsg} \cup {ErrorMsg(c) : c \in KernelCodes}

Datagrams(n) == UNION {[1..k -> Msgs] : k \in 1..n}

RECURSIVE SumLen(_)
SumLen(ds) == IF ds = <<>> THEN 0 ELSE Len(Head(ds)) + SumLen(Tail(ds))

(***************************************************************************)
(* The callbacks.                                                          *)
(***************************************************************************)
\* nla_parse with a null policy validates nothing and returns 0.
nla_parse(m) == 0

nlValidHandler(m) == NL_OK

getInterfaceInfoHandler(m) ==
    IF nla_parse(m) < 0 THEN nla_parse(m) ELSE NL_OK

getInterfaceInfoTxPowerHandler(m) ==
    IF nla_parse(m) < 0 THEN nla_parse(m)
    ELSE IF m.txp THEN NL_STOP ELSE NL_OK

\* Caller-supplied handlers.
skipHandler(m) == NL_SKIP

failHandler(m) == -EPROTO

\* The values the Cmd's reply handler can return for message m.
ValidHandlerRets(c, m) ==
    CASE c.valid = "none" -> {nlValidHandler(m)}
      [] c.valid = "getInterfaceInfoHandler" -> {getInterfaceInfoHandler(m)}
      [] c.valid = "getInterfaceInfoTxPowerHandler" -> {getInterfaceInfoTxPowerHandler(m)}
      [] c.valid = "skipHandler" -> {skipHandler(m)}
      [] OTHER -> {failHandler(m)}

\* error_handler: the status it stores and what it returns.
error_handler(code) ==
    [status |-> IF code > 0 THEN -EPROTO ELSE code, rc |-> NL_STOP]

\* The value the Cmd's reply handler returns for message m.
HandlerRet(c, m) == CHOOSE h \in ValidHandlerRets(c, m) : TRUE

\* A finish handler that ends the batch.
finish_handler_Stop == [status |-> 0, rc |-> NL_STOP]

\* finish_handler and ack_handler: both store 0.
finish_handler == [status |-> 0, rc |-> NL_SKIP]

ack_handler == [status |-> 0, rc |-> NL_STOP]

\* The callback table nlExecCommand builds for Cmd c: the callback kinds
\* that are set on cb.
ReplyHook == "NL_CB_MSG_IN"

\* The table with the ack handler set whatever the request flags.
CbTable_AckAlways(c) ==
    [msg_in |-> TRUE, valid |-> FALSE, finish |-> TRUE, ack |-> TRUE, err |-> TRUE]

CbTable(c) ==
    [msg_in |-> ReplyHook = "NL_CB_MSG_IN",
     valid  |-> ReplyHook = "NL_CB_VALID",
     finish |-> TRUE,
     ack    |-> ~c.dump,
     err    |-> TRUE]

(***************************************************************************)
(* libnl: recvmsgs() for one message.                                      *)
(***************************************************************************)
\* NL_CB_CALL: where the dispatch goes after a callback returned rc.
NlCbCall(rc) ==
    CASE rc = NL_OK   -> "proceed"
      [] rc = NL_SKIP -> "skip"
      [] rc = NL_STOP -> "stop"
      [] OTHER        -> "out"

nl_syserr2nlerr(e) ==
    LET a == IF e < 0 THEN -e ELSE e IN
    CASE a = EBUSY  -> 25
      [] a = ENOENT -> 12
      [] a = ENOMEM -> 5
      [] OTHER      -> 1

\* After a callback of kind k returned rc: the result of this message.
\* ctl is "next" (go on with the next message of the buffer), "stop" (leave
\* the buffer, err 0) or "out" (leave the buffer with err).
AfterCall(r, k, rc) ==
    LET to == NlCbCall(rc)
        r1 == [r EXCEPT !.ran = Append(r.ran, k)]
    IN
    CASE to = "proceed" -> [r1 EXCEPT !.err = 0]
      [] to = "skip"    -> [r1 EXCEPT !.err = 0, !.ctl = "next", !.over = TRUE]
      [] to = "stop"    -> [r1 EXCEPT !.err = 0, !.ctl = "stop", !.over = TRUE]
      [] OTHER          -> [r1 EXCEPT !.err = rc, !.ctl = "out", !.over = TRUE]

\* The type dispatch of recvmsgs for message m.
TypeDispatch(cb, r, m, h) ==
    IF m.type = "DONE"
    THEN LET r1 == [r EXCEPT !.multipart = FALSE] IN
         IF cb.finish
         THEN AfterCall([r1 EXCEPT !.rctxErr = finish_handler.status],
                        "finish", finish_handler.rc)
         ELSE r1
    ELSE IF m.type = "ERROR"
    THEN IF m.code # 0
         THEN IF cb.err
              THEN LET e == error_handler(m.code)
                       r1 == [r EXCEPT !.rctxErr = e.status,
                                       !.ran = Append(r.ran, "error"),
                                       !.over = TRUE]
                   IN
                   IF e.rc < 0 THEN [r1 EXCEPT !.err = e.rc, !.ctl = "out"]
                   ELSE IF e.rc = NL_SKIP THEN [r1 EXCEPT !.err = 0, !.ctl = "next"]
                   ELSE IF e.rc = NL_STOP
                   THEN [r1 EXCEPT !.err = -nl_syserr2nlerr(m.code), !.ctl = "out"]
                   ELSE [r1 EXCEPT !.err = 0, !.ctl = "next"]
              ELSE [r EXCEPT !.err = -nl_syserr2nlerr(m.code), !.ctl = "out",
                             !.over = TRUE]
         ELSE IF cb.ack
              THEN AfterCall([r EXCEPT !.rctxErr = ack_handler.status],
                             "ack", ack_handler.rc)
              ELSE r
    ELSE IF cb.valid THEN AfterCall(r, "valid", h) ELSE r

\* One message through recvmsgs; h is what the reply handler returns for it.
recvmsgs_one(cb, s, m, h) ==
    LET r0 == [rctxErr |-> s.rctxErr, err |-> 0, multipart |-> s.multipart,
               ctl |-> "next", ran |-> <<>>, over |-> FALSE]
        r1 == IF cb.msg_in THEN AfterCall(r0, "valid", h) ELSE r0
    IN
    IF r1.over THEN r1
    ELSE TypeDispatch(cb, [r1 EXCEPT !.multipart = m.multi \/ s.multipart], m, h)

(***************************************************************************)
(* Netlink::nlExecCommand.                                                 *)
(***************************************************************************)
ExecFailPoints ==
    {"none", "msg_alloc", "cb_alloc", "s_cb_alloc", "nla_put", "pre_execute", "send"}

\* Whether failure point fp exists for Cmd c.
FailPointOf(c, fp) ==
    /\ fp = "nla_put" => c.idby # "CIB_NONE"
    /\ fp = "pre_execute" => c.pre # "none"

\* What the pre-send handlers return: 0, or -ENOBUFS from nla_put_failure.
PreExecuteRet(fp) == IF fp = "pre_execute" THEN -ENOBUFS ELSE 0

\* The test taking only a positive value for a failure.
PreExecuteFailed_Positive(err) == err > 0

PreExecuteFailed(err) == err # 0

Throw(why) == [kind |-> "throw", val |-> 0, why |-> why]
Return(v)  == [kind |-> "ret", val |-> v, why |-> "return"]
NoOutcome  == [kind |-> "none", val |-> 0, why |-> "none"]
Crash      == [kind |-> "crash", val |-> 0, why |-> "null socket"]

\* Lines 107-164: from the allocations to nl_send_auto.  The result names
\* where control goes, the references still held and whether the request
\* went out.
BuildAndSend(c, fp, st) ==
    LET r(p, o, h, s) ==
            [pc |-> p, outcome |-> o, held |-> h, sent |-> s,
             preErr |-> IF c.pre # "none" /\ fp \notin {"msg_alloc", "cb_alloc",
                                                        "s_cb_alloc", "nla_put"}
                        THEN PreExecuteRet(fp) ELSE 0]
    IN
    IF fp = "msg_alloc" THEN r("idle", Throw("msg_alloc"), {}, FALSE)
    ELSE IF fp = "cb_alloc" THEN r("idle", Throw("cb_alloc"), {}, FALSE)
    ELSE IF fp = "s_cb_alloc" THEN r("idle", Throw("cb_alloc"), {}, FALSE)
    ELSE IF fp = "nla_put" THEN r("idle", Throw("nla_put"), {}, FALSE)
    ELSE IF c.pre # "none" /\ PreExecuteFailed(PreExecuteRet(fp))
    THEN r("idle", Throw("pre_execute"), {"s_cb"}, FALSE)
    ELSE IF st.gnl_socket # "sock"
    THEN r("crashed", Crash, {"msg", "cb", "s_cb"}, FALSE)
    ELSE IF fp = "send"
    THEN r("idle", Throw("send"), {"s_cb"}, FALSE)
    ELSE r("recv", NoOutcome, {"msg", "cb", "s_cb"}, TRUE)

\* The return selection with the two tests swapped: the pump's code first.
ReturnValue_PumpFirst(s) ==
    IF s.err < 0 THEN s.err
    ELSE IF s.rctxErr < 0 THEN s.rctxErr
    ELSE 0

\* The return selection without the test of the pump's code.
ReturnValue_KernelOnly(s) == IF s.rctxErr < 0 THEN s.rctxErr ELSE 0

\* Lines 195-214: the value nlExecCommand returns after the loop.
ReturnValue(s) ==
    IF s.rctxErr < 0 THEN s.rctxErr
    ELSE IF s.err < 0 THEN s.err
    ELSE 0

\* The while condition at line 182 together with the break at line 188,
\* after nl_recvmsgs returned e.
LoopAgain(rctxErr, e) == e >= 0 /\ rctxErr > 0

\* A loop turn that also records a negative pump code as the status.
LoopStep_StatusFromPump(r, e) ==
    [rctxErr |-> IF e < 0 THEN e ELSE r.rctxErr, err |-> e, multipart |-> FALSE]

\* Lines 182-190: what one turn of the loop stores, r being the state the
\* callbacks left and e the value nl_recvmsgs returned.
LoopStep(r, e) == [rctxErr |-> r.rctxErr, err |-> e, multipart |-> FALSE]

\* nl_recvmsgs maps a positive count to 0.
nl_recvmsgs_ret(e) == IF e > 0 THEN 0 ELSE e

\* nl_recv failing: the negative libnl codes it returns.
PumpErrors == {-5}

\* recvmsgs on the head of buffer buf in loop state s, the reply handler
\* returning h: where control goes (the next message, nl_recv again inside
\* the same recvmsgs, the next turn of the loop, or past the loop), the loop
\* state, what is left of the buffer and the callbacks that ran.
DispatchStep(c, s, buf, h) ==
    LET r == recvmsgs_one(CbTable(c), s, Head(buf), h)
        e == nl_recvmsgs_ret(IF r.ctl = "out" /\ r.err # 0 THEN r.err ELSE 1)
    IN
    IF r.ctl = "next" /\ Tail(buf) # <<>>
    THEN [pc |-> "dispatch", inbuf |-> Tail(buf), ran |-> r.ran,
          rx |-> [s EXCEPT !.rctxErr = r.rctxErr, !.multipart = r.multipart]]
    ELSE IF r.ctl = "next" /\ r.multipart
    THEN [pc |-> "recv", inbuf |-> <<>>, ran |-> r.ran,
          rx |-> [s EXCEPT !.rctxErr = r.rctxErr, !.multipart = TRUE]]
    ELSE [pc |-> IF LoopAgain(r.rctxErr, e) THEN "recv" ELSE "after_loop",
          inbuf |-> <<>>, ran |-> r.ran, rx |-> LoopStep(r, e)]

(***************************************************************************)
(* WiFIController: the kernel's interfaces, the records and the directory. *)
(***************************************************************************)
\* Bounds of the controller model.
MaxOps == 2
MaxAttempts == 2

ENODEV == 19
ENOTCONN == 107
NLE_NOMEM == 5
NLE_NODEV == 31
NL80211_TX_POWER_FIXED == 2

MONITOR_INTERFACE_NAME == "mon0"
AP_INTERFACE_NAME == "ap0"

Names == {MONITOR_INTERFACE_NAME, AP_INTERFACE_NAME}

\* Frequencies (MHz) and tx-power levels (hundredths of dBm, as the kernel
\* reports them) of the model, and the powers (dBm) a caller asks for.
Freqs == {2412, 2437}
Levels == {-500, 2000}
Powers == {-5, 20}

\* C integer arithmetic.  A 32-bit value is written as the int32 with the
\* same bits, so the conversions between int32_t and uint32_t leave it as it
\* is and the unsigned operations are spelled out.
U16(x) == x % 65536

\* Signed division, truncating toward zero.
CDiv(a, b) == IF a >= 0 THEN a \div b ELSE -((-a) \div b)

\* x / 100 with x taken as a uint32_t: for a negative pattern,
\* (2^32 + x) / 100, with 2^32 = 42949672 * 100 + 96.
U32Div100(x) == IF x >= 0 THEN x \div 100 ELSE 42949672 + ((96 + x) \div 100)

\* The kernel's index of the interface of a given name.
KernIndex(name) == IF name = MONITOR_INTERFACE_NAME THEN 3 ELSE 4

NoIface == [exists |-> FALSE, type |-> "none", freq |-> 0, mbm |-> 0, up |-> FALSE]

if_nametoindex(k, name) == IF k[name].exists THEN KernIndex(name) ELSE 0

\* The interfaces a command's device field names: all of them when the
\* command carries no device.
Targets(c, k) ==
    IF c.idby = "CIB_NONE" THEN {n \in Names : k[n].exists}
    ELSE IF c.idby = "CIB_NETDEV"
    THEN {n \in Names : k[n].exists /\ KernIndex(n) = c.device}
    ELSE {}

\* A uint64_t as its upper and lower 32 bits.
U64(hi, lo) == [hi |-> hi, lo |-> lo]

\* The conversions between uint64_t and uint32_t.
U32OfU64(v) == v.lo

U64OfU32(x) == U64(0, x)

\* The kernel's wdev id of the interface of a given name: the index of the
\* phy in the upper 32 bits (the model's interfaces are on phy 0), the
\* interface's number on the phy in the lower ones.
KernWdev(name) == U64(0, IF name = MONITOR_INTERFACE_NAME THEN 1 ELSE 2)

\* struct InterfaceInfo, as std::optional<InterfaceInfo>: has is has_value().
NoInfo == [has |-> FALSE, ifName |-> "", ifType |-> "none", ifIndex |-> 0,
           wdev |-> U64(0, 0), freq |-> 0, txdBm |-> 0]

NoDirectory == [n \in Names |-> NoInfo]

\* A Cmd as WiFIController builds it: the engine's fields, the device, whether
\* valid_handler_args is set and what the pre-send handler appends.
CtlCmd(id, idby, dump, pre, valid, device, args, attrs) ==
    [id |-> id, idby |-> idby, dump |-> dump, pre |-> pre, valid |-> valid,
     device |-> device, valid_handler_args |-> args, attrs |-> attrs]

\* The reply message describing interface n of kernel state k; txp: whether
\* it carries NL80211_ATTR_WIPHY_TX_POWER_LEVEL.
IfaceMsg(k, n, multi, txp) ==
    [type |-> "DATA", multi |-> multi, txp |-> txp, code |-> 0,
     ifname |-> n, ifindex |-> KernIndex(n), iftype |-> k[n].type,
     wdev |-> KernWdev(n), freq |-> k[n].freq, mbm |-> k[n].mbm]

\* The attribute of name a among attrs, as a set of values.
AttrVals(attrs, a) == {attrs[i].val : i \in {j \in 1..Len(attrs) : attrs[j].attr = a}}

(***************************************************************************)
(* The kernel's side of an exchange: for Cmd c in kernel state k, the      *)
(* datagrams it answers with and the state it is in afterwards.            *)
(***************************************************************************)
Reaction(ds, k) == [ds |-> ds, kern |-> k]

\* The existing interfaces, in index order.
ExistingNames(k) ==
    (IF k[MONITOR_INTERFACE_NAME].exists THEN <<MONITOR_INTERFACE_NAME>> ELSE <<>>)
        \o (IF k[AP_INTERFACE_NAME].exists THEN <<AP_INTERFACE_NAME>> ELSE <<>>)

\* SET_WIPHY applied to interface n.
ApplyWiphy(k, n, attrs) ==
    LET fs == AttrVals(attrs, "WIPHY_FREQ")
        ls == AttrVals(attrs, "WIPHY_TX_POWER_LEVEL")
        k1 == IF fs = {} THEN k
              ELSE [k EXCEPT ![n].freq = CHOOSE v \in fs : TRUE]
    IN
    IF ls = {} THEN k1 ELSE [k1 EXCEPT ![n].mbm = CHOOSE v \in ls : TRUE]

KernelReactions(c, k) ==
    LET T == Targets(c, k)
        nodev == {Reaction(<< <<ErrorMsg(-ENODEV)>> >>, k)}
        busy == {Reaction(<< <<ErrorMsg(-EBUSY)>> >>, k)}
    IN
    busy \cup
    CASE c.id = "GET_INTERFACE" /\ c.dump ->
            {Reaction((IF ExistingNames(k) = <<>> THEN <<>>
                       ELSE << [i \in 1..Len(ExistingNames(k)) |->
                                   IfaceMsg(k, ExistingNames(k)[i], TRUE, txp)] >>)
                      \o << <<DoneMsg>> >>, k) : txp \in BOOLEAN}
      [] c.id = "GET_INTERFACE" /\ ~c.dump ->
            IF T = {} THEN nodev
            ELSE {Reaction(<< <<IfaceMsg(k, n, FALSE, txp)>>, <<AckMsg>> >>, k) :
                      n \in T, txp \in BOOLEAN}
      [] c.id = "GET_WIPHY" ->
            IF T = {} THEN nodev
            ELSE {Reaction(<< <<IfaceMsg(k, n, TRUE, txp)>>, <<DoneMsg>> >>, k) :
                      n \in T, txp \in BOOLEAN}
                 \cup {Reaction(<< <<IfaceMsg(k, n, TRUE, TRUE), DoneMsg>> >>, k) :
                      n \in T}
      [] c.id = "SET_WIPHY" ->
            IF T = {} THEN nodev
            ELSE {Reaction(<< <<AckMsg>> >>, k) : n \in T}
                 \cup {Reaction(<< <<AckMsg>> >>, ApplyWiphy(k, n, c.attrs)) : n \in T}
      [] c.id = "NEW_INTERFACE" ->
            {Reaction(<< <<IfaceMsg(k1, n, FALSE, FALSE)>>, <<AckMsg>> >>, k1) :
                 <<n, k1>> \in
                    {<<m, [k EXCEPT ![m] = [exists |-> TRUE, type |-> ty, freq |-> 0,
                                            mbm |-> 2000, up |-> FALSE]]>> :
                        m \in {x \in AttrVals(c.attrs, "IFNAME") : ~k[x].exists},
                        ty \in AttrVals(c.attrs, "IFTYPE")}}
      [] c.id = "DEL_INTERFACE" ->
            IF T = {} THEN nodev
            ELSE {Reaction(<< <<AckMsg>> >>, [k EXCEPT ![n] = NoIface]) : n \in T}
      [] OTHER -> {}

(***************************************************************************)
(* nlExecCommand as the controller sees it.                                *)
(***************************************************************************)
Hang == [kind |-> "hang", val |-> 0, why |-> "receive loop"]

\* The failures of the build-and-send part the controller model draws.
CtlFailPoints == {"none", "nla_put", "pre_execute", "send"}

\* The receive loop of Cmd c over the datagrams ds, buf being what is left
\* of the datagram in hand: the loop state and the messages the reply handler
\* was called with, in order.
RECURSIVE RunSeen(_, _, _, _)
RunSeen(c, s, buf, ds) ==
    IF buf # <<>>
    THEN CHOOSE t \in
             {RunSeen(c, [pc |-> d.pc, rx |-> d.rx,
                          seen |-> IF \E i \in 1..Len(d.ran) : d.ran[i] = "valid"
                                   THEN Append(s.seen, Head(buf)) ELSE s.seen],
                      d.inbuf, ds)
              : d \in {DispatchStep(c, s.rx, buf, HandlerRet(c, Head(buf)))}} : TRUE
    ELSE IF s.pc = "recv" /\ ds # <<>> THEN RunSeen(c, s, Head(ds), Tail(ds))
    ELSE s

\* What one nlExecCommand(c) can do in session state st and kernel state k:
\* how it ends, the messages its reply handler saw and the kernel state left.
ExecResults(c, st, k) ==
    UNION {
        LET b == BuildAndSend(c, fp, st) IN
        IF b.pc # "recv"
        THEN {[out |-> b.outcome, seen |-> <<>>, kern |-> k]}
        ELSE {[out  |-> IF x.s.pc = "recv" THEN Hang ELSE Return(ReturnValue(x.s.rx)),
               seen |-> x.s.seen,
               kern |-> x.kern]
              : x \in {[kern |-> r.kern,
                        s |-> RunSeen(c, [pc |-> "recv", seen |-> <<>>,
                                          rx |-> [rctxErr |-> 1, err |-> 0,
                                                  multipart |-> FALSE]],
                                      <<>>, r.ds)]
                       : r \in KernelReactions(c, k)}}
        : fp \in {f \in CtlFailPoints : FailPointOf(c, f)}}

(***************************************************************************)
(* WiFIController's helper functions.  A C string is the sequence of its   *)
(* characters.                                                             *)
(***************************************************************************)
\* enum nl80211_chan_width and enum nl80211_channel_type (linux/nl80211.h).
NL80211_CHAN_WIDTH_20_NOHT == 0
NL80211_CHAN_WIDTH_20 == 1
NL80211_CHAN_WIDTH_40 == 2
NL80211_CHAN_WIDTH_80 == 3
NL80211_CHAN_WIDTH_160 == 5
NL80211_CHAN_WIDTH_5 == 6
NL80211_CHAN_WIDTH_10 == 7
NL80211_CHAN_WIDTH_1 == 8
NL80211_CHAN_WIDTH_2 == 9
NL80211_CHAN_WIDTH_4 == 10
NL80211_CHAN_WIDTH_8 == 11
NL80211_CHAN_WIDTH_16 == 12
NL80211_CHAN_WIDTH_320 == 13

NL80211_CHAN_NO_HT == 0
NL80211_CHAN_HT20 == 1
NL80211_CHAN_HT40MINUS == 2
NL80211_CHAN_HT40PLUS == 3

ETH_ALEN == 6

UpperCase == << "A", "B", "C", "D", "E", "F", "G", "H", "I", "J", "K", "L", "M",
                "N", "O", "P", "Q", "R", "S", "T", "U", "V", "W", "X", "Y", "Z" >>

LowerCase == << "a", "b", "c", "d", "e", "f", "g", "h", "i", "j", "k", "l", "m",
                "n", "o", "p", "q", "r", "s", "t", "u", "v", "w", "x", "y", "z" >>

\* The position of c in seq, 0 when it is not there.
PosIn(seq, c) ==
    IF \E i \in 1..Len(seq) : seq[i] = c
    THEN CHOOSE i \in 1..Len(seq) : seq[i] = c
    ELSE 0

tolower(c) == IF PosIn(UpperCase, c) > 0 THEN LowerCase[PosIn(UpperCase, c)] ELSE c

toupper(c) == IF PosIn(LowerCase, c) > 0 THEN UpperCase[PosIn(LowerCase, c)] ELSE c

\* strcmp: 0 for equal strings (the sign of a difference is not used).
strcmp(a, b) == IF a = b THEN 0 ELSE 1

\* strcasecmp: 0 for strings equal up to the case of their letters.
strcasecmp(a, b) ==
    IF /\ Len(a) = Len(b)
       /\ \A i \in 1..Len(a) : tolower(a[i]) = tolower(b[i])
    THEN 0 ELSE 1

\* struct ChanMode.
ChanMode(name, width, freq1_diff, chantype) ==
    [name |-> name, width |-> width, freq1_diff |-> freq1_diff, chantype |-> chantype]

\* The table of getChanMode.
chanMode ==
    << ChanMode(<<"2", "0">>, NL80211_CHAN_WIDTH_20, 0, NL80211_CHAN_HT20),
       ChanMode(<<"4", "0">>, NL80211_CHAN_WIDTH_40, 10, NL80211_CHAN_HT40PLUS),
       ChanMode(<<"H", "T", "4", "0", "-">>, NL80211_CHAN_WIDTH_40, -10,
                NL80211_CHAN_HT40MINUS),
       ChanMode(<<"N", "O", "H", "T">>, NL80211_CHAN_WIDTH_20_NOHT, 0,
                NL80211_CHAN_NO_HT),
       ChanMode(<<"5", "M", "H", "z">>, NL80211_CHAN_WIDTH_5, 0, -1),
       ChanMode(<<"1", "0", "M", "H", "z">>, NL80211_CHAN_WIDTH_10, 0, -1),
       ChanMode(<<"8", "0">>, NL80211_CHAN_WIDTH_80, 0, -1),
       ChanMode(<<"1", "6", "0">>, NL80211_CHAN_WIDTH_160, 0, -1),
       ChanMode(<<"3", "2", "0", "M", "H", "z">>, NL80211_CHAN_WIDTH_320, 0, -1),
       ChanMode(<<"1", "M", "H", "z">>, NL80211_CHAN_WIDTH_1, 0, -1),
       ChanMode(<<"2", "M", "H", "z">>, NL80211_CHAN_WIDTH_2, 0, -1),
       ChanMode(<<"4", "M", "H", "z">>, NL80211_CHAN_WIDTH_4, 0, -1),
       ChanMode(<<"8", "M", "H", "z">>, NL80211_CHAN_WIDTH_8, 0, -1),
       ChanMode(<<"1", "6", "M", "H", "z">>, NL80211_CHAN_WIDTH_16, 0, -1) >>

\* struct ChanMode selectedChanMode = {}: a null name and zeros.
ZeroChanMode == ChanMode(<<>>, 0, 0, 0)

\* The least element of a non-empty set of numbers.
Least(S) == CHOOSE x \in S : \A y \in S : x <= y

\* getChanMode(width): the first entry whose name strcasecmp takes for equal.
getChanMode(width) ==
    LET hits == {i \in 1..Len(chanMode) : strcasecmp(chanMode[i].name, width) = 0}
    IN IF hits = {} THEN ZeroChanMode ELSE chanMode[Least(hits)]

\* The segment-start tables of getCf1.
bw80 == << 5180, 5260, 5500, 5580, 5660, 5745, 5955, 6035, 6115, 6195,
           6275, 6355, 6435, 6515, 6595, 6675, 6755, 6835, 6195, 6995 >>

bw160 == << 5180, 5500, 5955, 6115, 6275, 6435, 6595, 6755, 6915 >>

bw320 == << 5955, 6115, 6275, 6435, 6595, 6755 >>

\* The for loop of getCf1 over table: the index it stops at, Len(table) + 1
\* when no entry's window of span MHz holds freq.
FirstSegment(table, span, freq) ==
    LET hits == {j \in 1..Len(table) : freq >= table[j] /\ freq < table[j] + span}
    IN IF hits = {} THEN Len(table) + 1 ELSE Least(hits)

\* One case of getCf1's switch: the table, the window and the offset.
SegmentCf1(table, span, offset, freq) ==
    LET j == FirstSegment(table, span, freq)
    IN IF j = Len(table) + 1 THEN freq ELSE table[j] + offset

\* The 320 MHz case searching windows as wide as the channel.
Cf1Of320_FullWidth(freq) == SegmentCf1(bw320, 320, 150, freq)

\* The 320 MHz case of getCf1: windows of 160 MHz.
Cf1Of320(freq) == SegmentCf1(bw320, 160, 150, freq)

\* getCf1 returning the control frequency for every mode.
getCf1_ControlFreq(chanmode, freq) == freq

\* getCf1(chanmode, freq).
getCf1(chanmode, freq) ==
    IF chanmode.width = NL80211_CHAN_WIDTH_80 THEN SegmentCf1(bw80, 80, 30, freq)
    ELSE IF chanmode.width = NL80211_CHAN_WIDTH_160 THEN SegmentCf1(bw160, 160, 70, freq)
    ELSE IF chanmode.width = NL80211_CHAN_WIDTH_320 THEN Cf1Of320(freq)
    ELSE freq + chanmode.freq1_diff

HexLower == << "0", "1", "2", "3", "4", "5", "6", "7", "8", "9",
               "a", "b", "c", "d", "e", "f" >>

HexUpper == << "0", "1", "2", "3", "4", "5", "6", "7", "8", "9",
               "A", "B", "C", "D", "E", "F" >>

\* sprintf("%02x", byte).
Hex02x(byte) == << HexLower[(byte \div 16) + 1], HexLower[(byte % 16) + 1] >>

\* mac_n2a(arg): the bytes in hex with a colon before each but the first.
RECURSIVE mac_n2a(_)
mac_n2a(arg) ==
    IF arg = <<>> THEN <<>>
    ELSE IF Len(arg) = 1 THEN Hex02x(arg[1])
    ELSE mac_n2a(SubSeq(arg, 1, Len(arg) - 1)) \o <<":">> \o Hex02x(arg[Len(arg)])

\* The lambda of mac_a2n with the letters a-f taken for 0-5.
hexval_NoOffset(c) ==
    IF PosIn(HexLower, c) > 0 THEN (PosIn(HexLower, c) - 1) % 10
    ELSE IF PosIn(HexUpper, c) > 0 THEN PosIn(HexUpper, c) - 1
    ELSE -1

\* The lambda hexval of mac_a2n: the digit's value, -1 for another character.
hexval(c) ==
    IF PosIn(HexLower, c) > 0 THEN PosIn(HexLower, c) - 1
    ELSE IF PosIn(HexUpper, c) > 0 THEN PosIn(HexUpper, c) - 1
    ELSE -1

\* The characters mac_a2n skips.
Separators == {":", "-", " ", "\t"}

\* The loop of mac_a2n over the characters mac, with the high nibble hi and
\* the bytes out written so far: whether it succeeded and what it wrote.
RECURSIVE A2nLoop(_, _, _)
A2nLoop(mac, hi, out) ==
    IF mac = <<>> THEN [ok |-> hi = -1 /\ Len(out) = ETH_ALEN, out |-> out]
    ELSE IF Head(mac) \in Separators THEN A2nLoop(Tail(mac), hi, out)
    ELSE IF hexval(Head(mac)) < 0 THEN [ok |-> FALSE, out |-> out]
    ELSE IF hi < 0 THEN A2nLoop(Tail(mac), hexval(Head(mac)), out)
    ELSE IF Len(out) >= ETH_ALEN THEN [ok |-> FALSE, out |-> out]
    ELSE A2nLoop(Tail(mac), -1, Append(out, hi * 16 + hexval(Head(mac))))

mac_a2n(mac) == A2nLoop(mac, -1, <<>>)

\* frequencyToChannel, with C's truncating division.
frequencyToChannel(freq) ==
    IF freq < 1000 THEN 0
    ELSE IF freq = 2484 THEN 14
    ELSE IF freq = 5935 THEN 2
    ELSE IF freq < 2484 THEN CDiv(freq - 2407, 5)
    ELSE IF freq >= 4910 /\ freq <= 4980 THEN CDiv(freq - 4000, 5)
    ELSE IF freq < 5950 THEN CDiv(freq - 5000, 5)
    ELSE IF freq <= 45000 THEN CDiv(freq - 5950, 5)
    ELSE IF freq >= 58320 /\ freq <= 70200 THEN CDiv(freq - 56160, 2160)
    ELSE 0

(***************************************************************************)
(* InterfaceInfoBuilder and the two reply decoders' effects.               *)
(***************************************************************************)
\* std::optional fields of the builder: <<>> is unset, <<v>> holds v.
value_or(o, dflt) == IF o = <<>> THEN dflt ELSE o[1]

\* The attribute table nla_parse fills for data message m: <<>> for an
\* attribute the message does not carry.  An attribute is absent when the
\* kernel has no value for it (frequency 0: no channel).
AttributeTable(m) ==
    [ifname  |-> <<m.ifname>>,
     iftype  |-> <<m.iftype>>,
     ifindex |-> <<m.ifindex>>,
     wdev    |-> <<m.wdev>>,
     freq    |-> IF m.freq = 0 THEN <<>> ELSE <<m.freq>>,
     txlevel |-> IF m.txp THEN <<m.mbm>> ELSE <<>>]

\* The builder getInterfaceInfoHandler fills from an attribute table.  The
\* wdev id is read with nla_get_u64 and passed to wdevIndex(const uint32_t);
\* the tx power is read with nla_get_u32 and divided as unsigned.
Filled(table) ==
    [name  |-> table.ifname,
     type  |-> table.iftype,
     index |-> table.ifindex,
     wdev  |-> IF table.wdev = <<>> THEN <<>> ELSE <<U32OfU64(table.wdev[1])>>,
     freq  |-> table.freq,
     tx    |-> IF table.txlevel = <<>> THEN <<>>
               ELSE <<U32Div100(table.txlevel[1])>>]

\* getInterfaceInfoHandler pushing whatever the reply carries.
Pushed_Always(table, builders) == Append(builders, Filled(table))

\* The builders after getInterfaceInfoHandler saw a reply with this table:
\* push_back only under NL80211_ATTR_IFINDEX.
Pushed(table, builders) ==
    IF table.ifindex # <<>> THEN Append(builders, Filled(table)) ELSE builders

\* What getInterfaceInfoHandler makes of data message m.
BuilderOf(m) == Filled(AttributeTable(m))

\* The builders getInterfaceInfoHandler pushed for the messages it saw.  Only
\* a data message carries attributes.
RECURSIVE InfoBuilders(_)
InfoBuilders(seen) ==
    IF seen = <<>> THEN <<>>
    ELSE (IF Head(seen).type = "DATA"
          THEN Pushed(AttributeTable(Head(seen)), <<>>) ELSE <<>>)
             \o InfoBuilders(Tail(seen))

\* getInterfaceInfoTxPowerHandler leaving the builder as it was.
TxPowerBuilder_Keep(b, seen) == b

\* The builder after getInterfaceInfoTxPowerHandler saw the messages seen.
RECURSIVE TxPowerBuilder(_, _)
TxPowerBuilder(b, seen) ==
    IF seen = <<>> THEN b
    ELSE LET m == Head(seen) IN
         TxPowerBuilder(IF m.type = "DATA" /\ m.txp
                        THEN [b EXCEPT !.tx = <<CDiv(m.mbm, 100)>>] ELSE b,
                        Tail(seen))

\* InterfaceInfoBuilder::build.
build(b) ==
    [has     |-> TRUE,
     ifName  |-> value_or(b.name, "Unnamed/non-netdev interface"),
     ifType  |-> value_or(b.type, "unspecified"),
     ifIndex |-> value_or(b.index, 0),
     wdev    |-> U64OfU32(value_or(b.wdev, 0)),
     freq    |-> value_or(b.freq, 0),
     txdBm   |-> value_or(b.tx, 0)]

(***************************************************************************)
(* The controller's operations.  Each is the set of ways the call can go   *)
(* in session state st, kernel state k and directory dir: how it ends      *)
(* ("ret", "throw", "crash", "hang"), the value or record it returns, the  *)
(* kernel state and directory it leaves, and the exchanges it issued.      *)
(***************************************************************************)
Res(end, why, val, info, k, dir, execs) ==
    [end |-> end, why |-> why, val |-> val, info |-> info, kern |-> k,
     dir |-> dir, execs |-> execs]

\* The record of one exchange in execs: the command, how it ended and the
\* messages its reply handler saw.
Exch(c, r) ==
    [id |-> c.id, device |-> c.device, attrs |-> c.attrs, out |-> r.out, seen |-> r.seen]

\* An exchange's exception turned into the return code -1.
Unwound_ReturnCode(r, dir, execs) ==
    IF r.out.kind = "throw" THEN Res("ret", r.out.why, -1, NoInfo, r.kern, dir, execs)
    ELSE Res(r.out.kind, r.out.why, 0, NoInfo, r.kern, dir, execs)

\* An exchange that did not return ends the operation the same way.
Unwound(r, dir, execs) == Res(r.out.kind, r.out.why, 0, NoInfo, r.kern, dir, execs)

GetInterfaceCmd(device, args) ==
    CtlCmd("GET_INTERFACE", "CIB_NETDEV", FALSE, "none", "getInterfaceInfoHandler",
           device, args, <<>>)

GetTxPowerCmd(device) ==
    CtlCmd("GET_WIPHY", "CIB_NETDEV", TRUE, "none", "getInterfaceInfoTxPowerHandler",
           device, TRUE, <<>>)

\* getInterfaceInfo(interfaceName).
getInterfaceInfo(name, st, k, dir) ==
    LET c1 == GetInterfaceCmd(if_nametoindex(k, name), TRUE) IN
    UNION {
        LET x1 == <<Exch(c1, r1)>>
            bs == InfoBuilders(r1.seen)
        IN
        IF r1.out.kind # "ret" THEN {Unwound(r1, dir, x1)}
        ELSE IF bs = <<>> THEN {Res("ret", "return", 0, NoInfo, r1.kern, dir, x1)}
        ELSE LET c2 == GetTxPowerCmd(value_or(bs[1].index, 0)) IN
             {LET x2 == Append(x1, Exch(c2, r2))
                  info == build(TxPowerBuilder(bs[1], r2.seen))
              IN
              IF r2.out.kind # "ret" THEN Unwound(r2, dir, x2)
              ELSE Res("ret", "return", 0, info, r2.kern,
                       [dir EXCEPT ![info.ifName] = info], x2)
              : r2 \in ExecResults(c2, st, r1.kern)}
        : r1 \in ExecResults(c1, st, k)}

\* getInterfaceInfo(interfaceIndex).  The Cmd leaves valid_handler_args null,
\* so the handler's push_back on a data message goes through a null vector.
getInterfaceInfoByIndex(index, st, k, dir) ==
    LET c1 == GetInterfaceCmd(index, FALSE) IN
    UNION {
        LET x1 == <<Exch(c1, r1)>> IN
        IF r1.out.kind \in {"throw", "crash"} THEN {Unwound(r1, dir, x1)}
        ELSE IF InfoBuilders(r1.seen) # <<>>
        THEN {Res("crash", "null builders", 0, NoInfo, r1.kern, dir, x1)}
        ELSE IF r1.out.kind # "ret" THEN {Unwound(r1, dir, x1)}
        ELSE IF \E n \in Names : dir[n].has /\ dir[n].ifIndex = index
        THEN {Res("ret", "return", 0, dir[n], r1.kern, dir, x1) :
                  n \in {m \in Names : dir[m].has /\ dir[m].ifIndex = index}}
        ELSE {Res("ret", "return", 0, NoInfo, r1.kern, dir, x1)}
        : r1 \in ExecResults(c1, st, k)}

\* getAllInterfaces: the per-interface GET_WIPHY loop over builders bs.
RECURSIVE TxPowerLoop(_, _, _, _, _)
TxPowerLoop(bs, st, k, dir, execs) ==
    IF bs = <<>> THEN {Res("ret", "return", 0, NoInfo, k, dir, execs)}
    ELSE LET c2 == GetTxPowerCmd(value_or(Head(bs).index, 0)) IN
         UNION {
             LET x2 == Append(execs, Exch(c2, r2))
                 info == build(TxPowerBuilder(Head(bs), r2.seen))
             IN
             IF r2.out.kind # "ret" THEN {Unwound(r2, dir, x2)}
             ELSE TxPowerLoop(Tail(bs), st, r2.kern,
                              [dir EXCEPT ![info.ifName] = info], x2)
             : r2 \in ExecResults(c2, st, k)}

getAllInterfaces(st, k, dir) ==
    LET c1 == CtlCmd("GET_INTERFACE", "CIB_NONE", TRUE, "none",
                     "getInterfaceInfoHandler", 0, TRUE, <<>>)
    IN
    UNION {
        IF r1.out.kind # "ret" THEN {Unwound(r1, dir, <<Exch(c1, r1)>>)}
        ELSE TxPowerLoop(InfoBuilders(r1.seen), st, r1.kern, dir, <<Exch(c1, r1)>>)
        : r1 \in ExecResults(c1, st, k)}

\* setTxPowerHandler passing the level in dBm.
setTxPowerHandler_Dbm(power_dbm) ==
    << [attr |-> "WIPHY_TX_POWER_SETTING", val |-> NL80211_TX_POWER_FIXED],
       [attr |-> "WIPHY_TX_POWER_LEVEL",   val |-> power_dbm] >>

\* The pre-send handlers: the attributes they append.
setTxPowerHandler(power_dbm) ==
    << [attr |-> "WIPHY_TX_POWER_SETTING", val |-> NL80211_TX_POWER_FIXED],
       [attr |-> "WIPHY_TX_POWER_LEVEL",   val |-> power_dbm * 100] >>

\* setFrequencyHandler reads the frequency through a uint16_t pointer.
\* center_freq1_offset is never anything but 0, so that its attribute is
\* never put.
setFrequencyHandler(frequency, bandwidth) ==
    LET freq == U16(frequency)
        selectedChanMode == getChanMode(bandwidth)
        center_freq1 == getCf1(selectedChanMode, freq)
        width == selectedChanMode.width
    IN << [attr |-> "WIPHY_FREQ", val |-> freq],
          [attr |-> "WIPHY_FREQ_OFFSET", val |-> 0],
          [attr |-> "CHANNEL_WIDTH", val |-> width] >>
       \o (IF width = NL80211_CHAN_WIDTH_20_NOHT
           THEN << [attr |-> "WIPHY_CHANNEL_TYPE", val |-> NL80211_CHAN_NO_HT] >>
           ELSE IF width = NL80211_CHAN_WIDTH_20
           THEN << [attr |-> "WIPHY_CHANNEL_TYPE", val |-> NL80211_CHAN_HT20] >>
           ELSE IF width = NL80211_CHAN_WIDTH_40
           THEN << [attr |-> "WIPHY_CHANNEL_TYPE",
                    val |-> IF freq > center_freq1 THEN NL80211_CHAN_HT40MINUS
                            ELSE NL80211_CHAN_HT40PLUS] >>
           ELSE <<>>)
       \o (IF center_freq1 # 0
           THEN << [attr |-> "CENTER_FREQ1", val |-> center_freq1] >>
           ELSE <<>>)

createInterfaceHandler(name, type, mac) ==
    << [attr |-> "IFNAME", val |-> name], [attr |-> "IFTYPE", val |-> type],
       [attr |-> "MAC", val |-> mac] >>

SetWiphyCmd(device, pre, attrs) ==
    CtlCmd("SET_WIPHY", "CIB_NETDEV", FALSE, pre, "none", device, FALSE, attrs)

\* The query's result with the exchanges execs put before its own.
After(execs, q) == [q EXCEPT !.execs = execs \o q.execs]

\* A SET/NEW exchange c followed by getInterfaceInfo(name): the exchange's
\* return value is dropped.
ExecThenInfo(c, name, st, k, dir) ==
    UNION {
        IF r.out.kind # "ret" THEN {Unwound(r, dir, <<Exch(c, r)>>)}
        ELSE {After(<<Exch(c, r)>>, q) : q \in getInterfaceInfo(name, st, r.kern, dir)}
        : r \in ExecResults(c, st, k)}

\* The same followed by getInterfaceInfo(index).
ExecThenInfoByIndex(c, index, st, k, dir) ==
    UNION {
        IF r.out.kind # "ret" THEN {Unwound(r, dir, <<Exch(c, r)>>)}
        ELSE {After(<<Exch(c, r)>>, q) :
                  q \in getInterfaceInfoByIndex(index, st, r.kern, dir)}
        : r \in ExecResults(c, st, k)}

BadOptionalAccess(q) == [q EXCEPT !.end = "throw", !.why = "bad_optional_access"]

\* setInterfaceTxPower(interfaceName, power_dbm).
setInterfaceTxPower(name, power_dbm, st, k, dir) ==
    {IF q.end # "ret" THEN q
     ELSE IF ~q.info.has THEN [q EXCEPT !.val = -1]
     ELSE [q EXCEPT !.val = IF power_dbm = q.info.txdBm THEN 0 ELSE -1]
     : q \in ExecThenInfo(SetWiphyCmd(if_nametoindex(k, name), "setTxPowerHandler",
                                      setTxPowerHandler(power_dbm)),
                          name, st, k, dir)}

\* setInterfaceTxPower(interfaceIndex, power_dbm).
setInterfaceTxPowerByIndex(index, power_dbm, st, k, dir) ==
    {IF q.end # "ret" THEN q
     ELSE IF ~q.info.has THEN BadOptionalAccess(q)
     ELSE [q EXCEPT !.val = IF power_dbm = q.info.txdBm THEN 0 ELSE -1]
     : q \in ExecThenInfoByIndex(SetWiphyCmd(index, "setTxPowerHandler",
                                             setTxPowerHandler(power_dbm)),
                                 index, st, k, dir)}

\* setInterfaceFrequency judging by the SET_WIPHY exchange's return value
\* instead of the re-queried record.
setInterfaceFrequency_FromExchange(name, frequency_mhz, bandwidth, st, k, dir) ==
    {IF q.end # "ret" THEN q
     ELSE IF ~q.info.has THEN [q EXCEPT !.val = -ENOENT]
     ELSE [q EXCEPT !.val = IF q.execs[1].out.val = 0 THEN 0 ELSE -1]
     : q \in ExecThenInfo(SetWiphyCmd(if_nametoindex(k, name), "setFrequencyHandler",
                                      setFrequencyHandler(frequency_mhz, bandwidth)),
                          name, st, k, dir)}

\* setInterfaceFrequency(interfaceName, frequency_mhz, bandwidth).
setInterfaceFrequency(name, frequency_mhz, bandwidth, st, k, dir) ==
    {IF q.end # "ret" THEN q
     ELSE IF ~q.info.has THEN [q EXCEPT !.val = -ENOENT]
     ELSE [q EXCEPT !.val = IF q.info.freq = frequency_mhz THEN 0 ELSE -1]
     : q \in ExecThenInfo(SetWiphyCmd(if_nametoindex(k, name), "setFrequencyHandler",
                                      setFrequencyHandler(frequency_mhz, bandwidth)),
                          name, st, k, dir)}

\* setInterfaceFrequency(interfaceIndex, frequency, bandwidth): the frequency
\* parameter is a uint16_t.
setInterfaceFrequencyByIndex(index, frequency, bandwidth, st, k, dir) ==
    {IF q.end # "ret" THEN q
     ELSE IF ~q.info.has THEN BadOptionalAccess(q)
     ELSE [q EXCEPT !.val = IF q.info.freq = U16(frequency) THEN 0 ELSE -1]
     : q \in ExecThenInfoByIndex(SetWiphyCmd(index, "setFrequencyHandler",
                                             setFrequencyHandler(U16(frequency),
                                                                 bandwidth)),
                                 index, st, k, dir)}

\* createInterface(interfaceName, type, mac, phyIndex).
createInterface(name, type, mac, phyIndex, st, k, dir) ==
    {IF q.end # "ret" THEN q
     ELSE [q EXCEPT !.val = IF q.info.has THEN 0 ELSE -1]
     : q \in ExecThenInfo(CtlCmd("NEW_INTERFACE", "CIB_PHY", FALSE,
                                 "createInterfaceHandler", "none", phyIndex, FALSE,
                                 createInterfaceHandler(name, type, mac)),
                          name, st, k, dir)}

\* deleteInterface(name).
deleteInterface(name, st, k, dir) ==
    LET c == CtlCmd("DEL_INTERFACE", "CIB_NETDEV", FALSE, "none", "none",
                    if_nametoindex(k, name), FALSE, <<>>)
    IN {IF r.out.kind # "ret" THEN Unwound(r, dir, <<Exch(c, r)>>)
        ELSE Res("ret", "return", 0, NoInfo, r.kern, dir, <<Exch(c, r)>>)
        : r \in ExecResults(c, st, k)}

\* The route-netlink calls of setInterfaceStatus that can fail.
RouteFailPoints == {"none", "link_get", "link_alloc", "link_change"}

NLE_BUSY == 25

\* The values the test !rnl_socket can see: the handle is null, a socket, or
\* was never assigned (nlInit left before line 69), when it holds whatever
\* the object was created with.
RouteHandleValues(st) ==
    IF st.rnl_socket = "wild" THEN {"null", "garbage"} ELSE {st.rnl_socket}

\* rtnl_link_change(sock, original_link, modified_link): the flag change
\* applied to the interface of the modified link's index.
rtnl_link_change(k, ifindex, up) ==
    [n \in Names |-> IF k[n].exists /\ KernIndex(n) = ifindex
                     THEN [k[n] EXCEPT !.up = up] ELSE k[n]]

\* setInterfaceStatus(interfaceName, up).  A result's why names the call
\* that made it return early.
setInterfaceStatus(name, up, st, k, dir) ==
    UNION {
        IF h = "null"
        THEN {Res("ret", "no route socket", -ENOTCONN, NoInfo, k, dir, <<>>)}
        ELSE IF h = "garbage"
        THEN {Res("crash", "wild route socket", 0, NoInfo, k, dir, <<>>)}
        ELSE {IF fp = "link_get" \/ ~k[name].exists
              THEN Res("ret", "link_get", -NLE_NODEV, NoInfo, k, dir, <<>>)
              ELSE IF fp = "link_alloc"
              THEN Res("ret", "link_alloc", -NLE_NOMEM, NoInfo, k, dir, <<>>)
              ELSE IF fp = "link_change"
              THEN Res("ret", "link_change", -NLE_BUSY, NoInfo, k, dir, <<>>)
              ELSE Res("ret", "return", 0, NoInfo,
                       rtnl_link_change(k, if_nametoindex(k, name), up), dir,
                       <<[id |-> "RTM_NEWLINK", device |-> if_nametoindex(k, name),
                          attrs |-> <<[attr |-> "IFF_UP", val |-> up]>>,
                          out |-> Return(0)]>>)
              : fp \in RouteFailPoints}
        : h \in RouteHandleValues(st)}

NoCall == [n |-> 0, op |-> "none", name |-> "", index |-> 0, arg |-> 0, power |-> 0,
           end |-> "none", why |-> "none", val |-> 0, info |-> NoInfo,
           execs |-> <<>>]

Indexes == {KernIndex(n) : n \in Names}

\* MainController not constructed.
NotStarted == [at |-> "off", i |-> 0]

\* No helper function applied yet.
NoFn == [op |-> "none", in |-> <<>>, out |-> <<>>]

\* The application's threads: the main thread and those MainController starts.
Threads == {"main", "measureCsi", "injectPackets", "ftm", "ftmResponder"}

\* A thread that does not run.
Off == [at |-> "off", exec |-> FALSE, left |-> 0]

NoArguments == [measure |-> FALSE, inject |-> FALSE, ftm |-> FALSE,
                ftmResponder |-> FALSE]

NoThreads == [t \in Threads |-> Off]

\* The kernel states an application run can start in.
KernInit ==
    {[n \in Names |-> NoIface],
     [n \in Names |-> IF n = MONITOR_INTERFACE_NAME
                      THEN [exists |-> TRUE, type |-> "managed", freq |-> 2412,
                            mbm |-> 2000, up |-> TRUE]
                      ELSE NoIface]}

(***************************************************************************)
(* Actions.                                                                *)
(***************************************************************************)
Init ==
    /\ pc = "start"
    /\ nlstate = [gnl_socket |-> "wild", rnl_socket |-> "wild", nl80211_id |-> 0]
    /\ socks = [gnl |-> "none", rnl |-> "none"]
    /\ initFail = "none"
    /\ initResult = [kind |-> "none", val |-> 0]
    /\ cmd = NoCmd
    /\ rx = [rctxErr |-> 1, err |-> 0, multipart |-> FALSE]
    /\ inbuf = <<>>
    /\ delivered = <<>>
    /\ log = <<>>
    /\ held = {}
    /\ preErr = 0
    /\ sent = FALSE
    /\ outcome = NoOutcome
    /\ kern = [n \in Names |-> NoIface]
    /\ interfaces = NoDirectory
    /\ call = NoCall
    /\ cpc = "idle"
    /\ steps = <<>>
    /\ fn = NoFn
    /\ arguments = NoArguments
    /\ tpc = NoThreads
    /\ mpc = NotStarted
    /\ interfacesToRestore = <<>>

\* Netlink::init / nlInit.
NlInit ==
    /\ pc = "start"
    /\ \E fail \in InitFailPoints :
         LET r == nlInit(nlstate, socks, fail) IN
         /\ nlstate' = r.st
         /\ socks' = r.so
         /\ initResult' = r.res
         /\ initFail' = fail
    /\ pc' = "idle"
    /\ UNCHANGED <<cmd, rx, inbuf, delivered, log, held, preErr, sent, outcome>>
    /\ UNCHANGED <<ctlvars, utilvars, thrvars, mainvars>>

\* nlExecCommand up to and including the send.  Every call starts from
\* fresh locals (rctx, msg, cb, s_cb), so a behaviour follows one exchange.
ExecBegin ==
    /\ pc = "idle"
    /\ outcome.kind = "none"
    /\ \E c \in Cmds, fp \in ExecFailPoints :
         /\ FailPointOf(c, fp)
         /\ LET r == BuildAndSend(c, fp, nlstate) IN
            /\ cmd' = c
            /\ pc' = r.pc
            /\ outcome' = r.outcome
            /\ held' = r.held
            /\ sent' = r.sent
            /\ preErr' = r.preErr
    /\ rx' = [rctxErr |-> 1, err |-> 0, multipart |-> FALSE]
    /\ inbuf' = <<>>
    /\ delivered' = <<>>
    /\ log' = <<>>
    /\ UNCHANGED <<nlstate, socks, initFail, initResult>>
    /\ UNCHANGED <<ctlvars, utilvars, thrvars, mainvars>>

\* nl_recv inside recvmsgs reads one datagram from the socket.
Recv ==
    /\ pc = "recv"
    /\ SumLen(delivered) < MaxMsgs
    /\ \E d \in Datagrams(MaxMsgs - SumLen(delivered)) :
         /\ inbuf' = d
         /\ delivered' = Append(delivered, d)
    /\ pc' = "dispatch"
    /\ UNCHANGED <<nlstate, socks, initFail, initResult, cmd, rx, log, held,
                   preErr, sent, outcome>>
    /\ UNCHANGED <<ctlvars, utilvars, thrvars, mainvars>>

\* nl_recv fails: recvmsgs and nl_recvmsgs return its negative code and the
\* loop breaks.
RecvFail ==
    /\ pc = "recv"
    /\ \E e \in PumpErrors :
         rx' = [rx EXCEPT !.err = e]
    /\ pc' = "after_loop"
    /\ UNCHANGED <<nlstate, socks, initFail, initResult, cmd, inbuf, delivered,
                   log, held, preErr, sent, outcome>>
    /\ UNCHANGED <<ctlvars, utilvars, thrvars, mainvars>>

\* recvmsgs handles the next message of the buffer; when the buffer is left,
\* nl_recvmsgs returns and the while condition is evaluated.
DispatchMsg ==
    /\ pc = "dispatch"
    /\ inbuf # <<>>
    /\ LET m == Head(inbuf) IN
       \E h \in ValidHandlerRets(cmd, m) :
         LET d   == DispatchStep(cmd, rx, inbuf, h)
             dg  == Len(delivered)
             pos == Len(delivered[dg]) - Len(inbuf) + 1
         IN
         /\ log' = log \o [k \in 1..Len(d.ran) |->
                              [cb |-> d.ran[k], dg |-> dg, pos |-> pos,
                               type |-> m.type, code |-> m.code, rc |-> h]]
         /\ inbuf' = d.inbuf
         /\ pc' = d.pc
         /\ rx' = d.rx
    /\ UNCHANGED <<nlstate, socks, initFail, initResult, cmd, delivered, held,
                   preErr, sent, outcome>>
    /\ UNCHANGED <<ctlvars, utilvars, thrvars, mainvars>>

\* Lines 192-214: release cb and msg, choose the return value.
ExecFinish ==
    /\ pc = "after_loop"
    /\ held' = held \ {"cb", "msg"}
    /\ outcome' = Return(ReturnValue(rx))
    /\ pc' = "idle"
    /\ UNCHANGED <<nlstate, socks, initFail, initResult, cmd, rx, inbuf, delivered,
                   log, preErr, sent>>
    /\ UNCHANGED <<ctlvars, utilvars, thrvars, mainvars>>

Next ==
    \/ NlInit
    \/ ExecBegin
    \/ Recv
    \/ RecvFail
    \/ DispatchMsg
    \/ ExecFinish

Spec == Init /\ [][Next]_vars

(***************************************************************************)
(* The controller's operations as actions.  A query or control call is one *)
(* step; createMonitorInterface and createApInterface go step by step.     *)
(***************************************************************************)
CtlInit ==
    /\ pc = "controller"
    /\ \E fail \in InitFailPoints :
         LET r == nlInit([gnl_socket |-> "wild", rnl_socket |-> "wild",
                          nl80211_id |-> 0],
                         [gnl |-> "none", rnl |-> "none"], fail)
         IN /\ nlstate = r.st
            /\ socks = r.so
            /\ initResult = r.res
            /\ initFail = fail
    /\ cmd = NoCmd
    /\ rx = [rctxErr |-> 1, err |-> 0, multipart |-> FALSE]
    /\ inbuf = <<>>
    /\ delivered = <<>>
    /\ log = <<>>
    /\ held = {}
    /\ preErr = 0
    /\ sent = FALSE
    /\ outcome = NoOutcome
    /\ kern \in KernInit
    /\ interfaces = NoDirectory
    /\ call = NoCall
    /\ cpc = "idle"
    /\ steps = <<>>
    /\ fn = NoFn
    /\ arguments = NoArguments
    /\ tpc = NoThreads
    /\ mpc = NotStarted
    /\ interfacesToRestore = <<>>

\* A new call can be made: none is in progress, the caller has taken the
\* result of the last one and the process is alive.
CanCall ==
    /\ cpc = "idle"
    /\ call.n < MaxOps
    /\ call.end = "none"

\* The call op(name/index, arg) went the way r.
Done(op, name, index, arg, r) ==
    /\ kern' = r.kern
    /\ interfaces' = r.dir
    /\ call' = [n |-> call.n + 1, op |-> op, name |-> name, index |-> index, power |-> 0,
                arg |-> arg, end |-> r.end, why |-> r.why, val |-> r.val,
                info |-> r.info, execs |-> r.execs]
    /\ UNCHANGED <<cpc, steps>>
    /\ UNCHANGED <<nlvars, utilvars, thrvars, mainvars>>

\* The caller takes the result of a call that returned or raised (the
\* callers catch std::exception) and goes on.
TakeResult ==
    /\ cpc = "idle"
    /\ call.end \in {"ret", "throw"}
    /\ call' = [NoCall EXCEPT !.n = call.n]
    /\ steps' = <<>>
    /\ UNCHANGED <<kern, interfaces, cpc>>
    /\ UNCHANGED <<nlvars, utilvars, thrvars, mainvars>>

GetAllInterfaces ==
    /\ CanCall
    /\ \E r \in getAllInterfaces(nlstate, kern, interfaces) :
         Done("getAllInterfaces", "", 0, 0, r)

GetInterfaceInfo ==
    /\ CanCall
    /\ \E n \in Names : \E r \in getInterfaceInfo(n, nlstate, kern, interfaces) :
         Done("getInterfaceInfo", n, 0, 0, r)

GetInterfaceInfoByIndex ==
    /\ CanCall
    /\ \E i \in Indexes : \E r \in getInterfaceInfoByIndex(i, nlstate, kern, interfaces) :
         Done("getInterfaceInfoByIndex", "", i, 0, r)

SetInterfaceTxPower ==
    /\ CanCall
    /\ \E n \in Names, p \in Powers :
         \E r \in setInterfaceTxPower(n, p, nlstate, kern, interfaces) :
            Done("setInterfaceTxPower", n, 0, p, r)

SetInterfaceTxPowerByIndex ==
    /\ CanCall
    /\ \E i \in Indexes, p \in Powers :
         \E r \in setInterfaceTxPowerByIndex(i, p, nlstate, kern, interfaces) :
            Done("setInterfaceTxPowerByIndex", "", i, p, r)

SetInterfaceFrequency ==
    /\ CanCall
    /\ \E n \in Names, f \in Freqs :
         \E r \in setInterfaceFrequency(n, f, <<"2", "0">>, nlstate, kern, interfaces) :
            Done("setInterfaceFrequency", n, 0, f, r)

SetInterfaceFrequencyByIndex ==
    /\ CanCall
    /\ \E i \in Indexes, f \in Freqs :
         \E r \in setInterfaceFrequencyByIndex(i, f, <<"2", "0">>, nlstate, kern, interfaces) :
            Done("setInterfaceFrequencyByIndex", "", i, f, r)

CreateInterface ==
    /\ CanCall
    /\ \E n \in Names, ty \in {"monitor", "ap"} :
         \E r \in createInterface(n, ty, "mac", 0, nlstate, kern, interfaces) :
            Done("createInterface", n, 0, 0, r)

DeleteInterface ==
    /\ CanCall
    /\ \E n \in Names : \E r \in deleteInterface(n, nlstate, kern, interfaces) :
         Done("deleteInterface", n, 0, 0, r)

SetInterfaceStatus ==
    /\ CanCall
    /\ \E n \in Names, up \in BOOLEAN :
         \E r \in setInterfaceStatus(n, up, nlstate, kern, interfaces) :
            Done("setInterfaceStatus", n, 0, IF up THEN 1 ELSE 0, r)

\* The test of createInterface's and setInterfaceStatus's return value that
\* takes no value for a failure.
StepFailed_Never(err) == FALSE

\* The test of createInterface's and setInterfaceStatus's return value.
StepFailed(err) == err < 0

\* The frequency loop leaving after a failed attempt.
FrequencyLoopAgain_Never(err) == FALSE

\* The condition of the frequency loop.
FrequencyLoopAgain(err) == err < 0

\* One call made by createMonitorInterface / createApInterface.
Step(s, n, r) == [step |-> s, name |-> n, end |-> r.end, val |-> r.val]

\* The frequency attempts made so far by the operation in progress.
Attempts == Cardinality({i \in 1..Len(steps) : steps[i].step = "setInterfaceFrequency"})

\* The operation in progress ends the way sub-call r did (by returning when
\* r returned).
EndCreate(r) ==
    /\ cpc' = "idle"
    /\ call' = [call EXCEPT !.end = r.end, !.why = r.why]

\* The sub-call's effects on kernel and directory, and its entry in steps.
SubCall(s, n, r) ==
    /\ kern' = r.kern
    /\ interfaces' = r.dir
    /\ steps' = Append(steps, Step(s, n, r))
    /\ UNCHANGED <<nlvars, utilvars, thrvars, mainvars>>

\* createMonitorInterface / createApInterface up to the return of
\* createInterface.
CreateBegin ==
    /\ CanCall
    /\ \E op \in {"createMonitorInterface", "createApInterface"}, f \in Freqs, p \in Powers :
         LET name == IF op = "createMonitorInterface"
                     THEN MONITOR_INTERFACE_NAME ELSE AP_INTERFACE_NAME
             type == IF op = "createMonitorInterface" THEN "monitor" ELSE "ap"
         IN
         /\ op = "createMonitorInterface" => p = 20
         /\ \E r \in createInterface(name, type, "mac", 0, nlstate, kern, interfaces) :
              /\ kern' = r.kern
              /\ interfaces' = r.dir
              /\ steps' = <<Step("createInterface", name, r)>>
              /\ LET c == [NoCall EXCEPT !.n = call.n + 1, !.op = op, !.name = name,
                                         !.arg = f, !.power = p, !.end = "running"]
                 IN IF r.end = "ret" /\ ~StepFailed(r.val)
                    THEN cpc' = "up" /\ call' = c
                    ELSE cpc' = "idle" /\ call' = [c EXCEPT !.end = r.end, !.why = r.why]
    /\ UNCHANGED <<nlvars, utilvars, thrvars, mainvars>>

\* setInterfaceStatus(name, true), then the settle delay.
CreateLinkUp ==
    /\ cpc = "up"
    /\ \E r \in setInterfaceStatus(call.name, TRUE, nlstate, kern, interfaces) :
         /\ SubCall("setInterfaceStatus", call.name, r)
         /\ IF r.end = "ret" /\ ~StepFailed(r.val)
            THEN cpc' = "freq" /\ UNCHANGED call
            ELSE EndCreate(r)

\* One turn of the frequency loop's condition: both operations name
\* MONITOR_INTERFACE_NAME.
CreateSetFrequency ==
    /\ cpc = "freq"
    /\ Attempts < MaxAttempts
    /\ \E r \in setInterfaceFrequency(MONITOR_INTERFACE_NAME, call.arg, <<"2", "0">>,
                                      nlstate, kern, interfaces) :
         /\ SubCall("setInterfaceFrequency", MONITOR_INTERFACE_NAME, r)
         /\ IF r.end # "ret" THEN EndCreate(r)
            ELSE IF FrequencyLoopAgain(r.val) THEN cpc' = "rfkill" /\ UNCHANGED call
            ELSE IF call.op = "createMonitorInterface" THEN EndCreate(r)
            ELSE cpc' = "txpower" /\ UNCHANGED call

\* The body of either retry loop: rfkill_unblock and the delay.
RfkillUnblock ==
    /\ cpc \in {"rfkill", "tx_rfkill"}
    /\ steps' = Append(steps, [step |-> "rfkill_unblock", name |-> "", end |-> "ret",
                               val |-> 0])
    /\ cpc' = IF cpc = "rfkill" THEN "freq" ELSE "txpower"
    /\ UNCHANGED <<kern, interfaces, call>>
    /\ UNCHANGED <<nlvars, utilvars, thrvars, mainvars>>

\* createApInterface: one turn of the tx-power loop's condition (err > 0).
CreateSetTxPower ==
    /\ cpc = "txpower"
    /\ \E r \in setInterfaceTxPower(AP_INTERFACE_NAME, call.power,
                                    nlstate, kern, interfaces) :
         /\ SubCall("setInterfaceTxPower", AP_INTERFACE_NAME, r)
         /\ IF r.end # "ret" THEN EndCreate(r)
            ELSE IF r.val > 0 THEN cpc' = "tx_rfkill" /\ UNCHANGED call
            ELSE EndCreate(r)

CtlNext ==
    \/ TakeResult
    \/ GetAllInterfaces
    \/ GetInterfaceInfo
    \/ GetInterfaceInfoByIndex
    \/ SetInterfaceTxPower
    \/ SetInterfaceTxPowerByIndex
    \/ SetInterfaceFrequency
    \/ SetInterfaceFrequencyByIndex
    \/ CreateInterface
    \/ DeleteInterface
    \/ SetInterfaceStatus
    \/ CreateBegin
    \/ CreateLinkUp
    \/ CreateSetFrequency
    \/ RfkillUnblock
    \/ CreateSetTxPower

CtlSpec == CtlInit /\ [][CtlNext]_vars

(***************************************************************************)
(* MainController: the application's threads and their use of the          *)
(* controller session (MainController::wifiController).  A thread's        *)
(* position is the function it is in; exec says that it is inside          *)
(* nlExecCommand on that session, left how many exchanges the function has *)
(* still to issue.  The measurement, injection and FTM controllers         *)
(* (WiFiCsiController, PacketInjector, WiFiFtmController) are objects of   *)
(* their own.                                                              *)
(***************************************************************************)
Pos(at, exec, left) == [at |-> at, exec |-> exec, left |-> left]

\* The exchanges of one setInterfaceFrequency(name, ...): SET_WIPHY and the
\* two of getInterfaceInfo.
FrequencyExchanges == 3

\* The threads that switch the interface between modes, the worker thread
\* each one starts and stops, and the argument that makes it do so.
Switchers == {"ftm", "ftmResponder"}

WorkerOf(s) == IF s = "ftm" THEN "measureCsi" ELSE "injectPackets"

Switching(s) == IF s = "ftm" THEN arguments.measure ELSE arguments.inject

\* Where a switcher thread waits between mode switches.
LoopHead(s) == IF s = "ftm" THEN "startInitiator" ELSE "modeDelay2"

ThrInit ==
    /\ pc = "threads"
    /\ LET r == nlInit([gnl_socket |-> "wild", rnl_socket |-> "wild",
                        nl80211_id |-> 0],
                       [gnl |-> "none", rnl |-> "none"], "none")
       IN /\ nlstate = r.st
          /\ socks = r.so
          /\ initResult = r.res
    /\ initFail = "none"
    /\ cmd = NoCmd
    /\ rx = [rctxErr |-> 1, err |-> 0, multipart |-> FALSE]
    /\ inbuf = <<>>
    /\ delivered = <<>>
    /\ log = <<>>
    /\ held = {}
    /\ preErr = 0
    /\ sent = FALSE
    /\ outcome = NoOutcome
    /\ kern = [n \in Names |-> NoIface]
    /\ interfaces = NoDirectory
    /\ call = NoCall
    /\ cpc = "idle"
    /\ steps = <<>>
    /\ fn = NoFn
    /\ arguments \in [measure : BOOLEAN, inject : BOOLEAN, ftm : BOOLEAN,
                      ftmResponder : BOOLEAN]
    /\ tpc = [t \in Threads |-> IF t = "main" THEN Pos("initInterface", FALSE, 1)
                                ELSE Pos("off", FALSE, 0)]
    /\ mpc = NotStarted
    /\ interfacesToRestore = <<>>

\* Only the threads move.
ThrFrame == UNCHANGED <<nlvars, ctlvars, utilvars, arguments, mainvars>>

\* A thread enters nlExecCommand on the controller session.  No lock is
\* taken: any thread that has an exchange to issue may enter.
ExecEnter ==
    /\ \E t \in Threads :
         /\ ~tpc[t].exec /\ tpc[t].left > 0
         /\ tpc' = [tpc EXCEPT ![t].exec = TRUE, ![t].left = @ - 1]
    /\ ThrFrame

\* nlExecCommand returns.
ExecLeave ==
    /\ \E t \in Threads :
         /\ tpc[t].exec
         /\ tpc' = [tpc EXCEPT ![t].exec = FALSE]
    /\ ThrFrame

\* The function a thread is in has issued all its exchanges.
Through(t, at) == tpc[t].at = at /\ ~tpc[t].exec /\ tpc[t].left = 0

\* runNoGui after initInterface: the threads are created by the arguments.
SpawnThreads ==
    /\ Through("main", "initInterface")
    /\ tpc' = [t \in Threads |->
                 IF t = "main" THEN Pos("pthread_join", FALSE, 0)
                 ELSE IF \/ t = "measureCsi" /\ arguments.measure /\ ~arguments.ftm
                         \/ t = "injectPackets" /\ arguments.inject
                                                /\ ~arguments.ftmResponder
                 THEN Pos("setInterfaceStatus", FALSE, 0)
                 ELSE IF t \in Switchers /\ arguments[t]
                 THEN Pos("init", FALSE, 0)
                 ELSE tpc[t]]
    /\ ThrFrame

\* The measurement / injection thread: the link is set up over the route
\* socket, then the thread works on objects of its own.
WorkerStart ==
    /\ \E t \in {"measureCsi", "injectPackets"} :
         /\ tpc[t].at = "setInterfaceStatus"
         /\ tpc' = [tpc EXCEPT ![t] = Pos(IF t = "measureCsi" THEN "listenToCsi"
                                          ELSE "inject", FALSE, 0)]
    /\ ThrFrame

\* ftm / ftmResponder after wft.init().
SwitcherInit ==
    /\ \E s \in Switchers :
         /\ tpc[s].at = "init"
         /\ tpc' = [tpc EXCEPT ![s] =
                       Pos(IF s = "ftm" \/ Switching(s) THEN LoopHead(s) ELSE "sleep",
                           FALSE, 0)]
    /\ ThrFrame

\* MainController::measureCsi(false) / injectPackets(false) called on the
\* switcher thread: setInterfaceFrequency on the controller session.
CallSetFrequency ==
    /\ \E s \in Switchers :
         /\ tpc[s].at = LoopHead(s)
         /\ Switching(s)
         /\ tpc' = [tpc EXCEPT ![s] = Pos(WorkerOf(s), FALSE, FrequencyExchanges)]
    /\ ThrFrame

\* The rest of measureCsi(false) / injectPackets(false): the worker thread is
\* created; the switcher sleeps for modeDelay.
CreateWorker ==
    /\ \E s \in Switchers :
         /\ Through(s, WorkerOf(s))
         /\ tpc' = [tpc EXCEPT ![s] = Pos("modeDelay", FALSE, 0),
                               ![WorkerOf(s)] = Pos("setInterfaceStatus", FALSE, 0)]
    /\ ThrFrame

\* measureCsi(true) / injectPackets(true): pthread_cancel of the worker; the
\* link changes over the route socket; back to the head of the loop.
CancelWorker ==
    /\ \E s \in Switchers :
         /\ tpc[s].at = "modeDelay"
         /\ tpc' = [tpc EXCEPT ![s] = Pos(LoopHead(s), FALSE, 0),
                               ![WorkerOf(s)] = Pos("off", FALSE, 0)]
    /\ ThrFrame

\* SIGINT while the main thread waits: the handler installed by the
\* constructor runs deleteInstance, whose destructor runs restoreState
\* (worker threads cancelled, deleteInterface on the controller session).
Sigint ==
    /\ tpc["main"].at = "pthread_join"
    /\ tpc' = [t \in Threads |->
                 IF t = "main" THEN Pos("restoreState", FALSE, 1)
                 ELSE IF t \in {"measureCsi", "injectPackets"} THEN Pos("off", FALSE, 0)
                 ELSE tpc[t]]
    /\ ThrFrame

\* exit(0) at the end of the handler.
Exit ==
    /\ Through("main", "restoreState")
    /\ tpc' = [t \in Threads |-> Pos("exit", FALSE, 0)]
    /\ ThrFrame

ThrNext ==
    \/ ExecEnter
    \/ ExecLeave
    \/ SpawnThreads
    \/ WorkerStart
    \/ SwitcherInit
    \/ CallSetFrequency
    \/ CreateWorker
    \/ CancelWorker
    \/ Sigint
    \/ Exit

ThrSpec == ThrInit /\ [][ThrNext]_vars

(***************************************************************************)
(* The helper functions on their own: a call of one of them on an input    *)
(* drawn at the start.  fn.in holds the function to call and its argument  *)
(* until the call, the argument afterwards.                                *)
(***************************************************************************)
\* The spellings of a label in upper and lower case.
RECURSIVE CaseVariants(_)
CaseVariants(name) ==
    IF name = <<>> THEN {<<>>}
    ELSE {<<c>> \o v : c \in {tolower(Head(name)), toupper(Head(name))},
                       v \in CaseVariants(Tail(name))}

\* Labels of no table entry.
NonLabels ==
    { <<>>, <<"2">>, <<"2", "0", "0">>, <<"2", "0", " ">>, <<"H", "T", "2", "0">>,
      <<"H", "T", "4", "0">>, <<"H", "T", "4", "0", "+">>, <<"4", "0", "-">>,
      <<"8", "0", "M", "H", "z">>, <<"3", "2", "0">>, <<"M", "H", "z">>,
      <<"a", "u", "t", "o">> }

Labels == UNION {CaseVariants(chanMode[i].name) : i \in 1..Len(chanMode)} \cup NonLabels

\* The modes getCf1 is called with: getChanMode's results.
Modes == {getChanMode(l) : l \in Labels}

\* Frequencies (MHz): two of the 2.4 GHz band, the 5 and 6 GHz bands.
CfFreqs == {2412, 2484} \cup (5170..7080)

MacBytes == {0, 10, 175, 255}

MacAddrs == [1..ETH_ALEN -> MacBytes]

BaseTexts == {mac_n2a(<<0, 10, 175, 255, 18, 52>>), mac_n2a(<<222, 173, 190, 239, 0, 1>>)}

EditChars == {":", "-", " ", "\t", "g", "G", "A", "0", "f", ".", "x"}

\* The texts one edit away from t.
Edits(t) ==
    {[t EXCEPT ![i] = c] : i \in 1..Len(t), c \in EditChars}
        \cup {SubSeq(t, 1, i) \o <<c>> \o SubSeq(t, i + 1, Len(t)) :
                  i \in 0..Len(t), c \in EditChars}
        \cup {SubSeq(t, 1, i - 1) \o SubSeq(t, i + 1, Len(t)) : i \in 1..Len(t)}

MacTexts ==
    BaseTexts \cup UNION {Edits(t) : t \in BaseTexts}
        \cup {[i \in 1..Len(t) |-> toupper(t[i])] : t \in BaseTexts}
        \cup {SubSeq(t, 1, n) : t \in BaseTexts, n \in {0, 14}}
        \cup {t \o <<":">> \o SubSeq(t, 1, n) : t \in BaseTexts, n \in {2, 17}}
        \cup { <<"0", "0", "0", "a", "a", "f", "f", "f", "1", "2", "3", "4">>,
               <<"0", ":", "0", "-", "0", "a", " ", "A", "F", "\t", "f", "F", "1",
                 "2", "3", "4">> }

\* Frequencies a caller asks setInterfaceFrequency for, the 60 GHz band's
\* (802.11ad channels 4 and 5) among them.
EncFreqs == {2412, 2484, 5180, 5200, 5500, 5955, 6200, 6920, 66960, 69120}

EncLabels == {chanMode[i].name : i \in 1..Len(chanMode)}
                 \cup {<<"h", "t", "4", "0", "-">>, <<"a", "u", "t", "o">>}

\* Attribute tables of the replies to GET_INTERFACE.
AttributeTables ==
    [ifname : {<<>>, <<MONITOR_INTERFACE_NAME>>}, iftype : {<<>>, <<"monitor">>},
     ifindex : {<<>>} \cup {<<i>> : i \in Indexes},
     wdev : {<<>>, <<U64(0, 1)>>, <<U64(1, 1)>>}, freq : {<<>>, <<2412>>},
     txlevel : {<<>>} \cup {<<l>> : l \in Levels}]

\* The frequencies frequencyToChannel is applied to: the bounds of its
\* branches and their neighbours, channel centres, and values of no band.
ChanFreqs ==
    {-2412, -1, 0, 1, 902, 999, 1000, 2400, 2402, 2403, 2406, 2407, 2412, 2437, 2472,
     2483, 2484, 2485, 3000, 4909, 4910, 4980, 4981, 4995, 5000, 5180, 5825, 5934,
     5935, 5949, 5950, 5955, 7115, 45000, 45001, 58319, 58320, 60480, 70200, 70201}

Helpers == {"getChanMode", "getCf1", "mac_n2a", "mac_a2n", "setFrequencyHandler",
            "getInterfaceInfoHandler", "frequencyToChannel"}

\* The arguments drawn for a helper function.
UtilInputs(for) ==
    CASE for = "getChanMode" -> Labels
      [] for = "getCf1" -> Modes \X CfFreqs
      [] for = "mac_n2a" -> MacAddrs
      [] for = "mac_a2n" -> MacTexts
      [] for = "setFrequencyHandler" -> EncFreqs \X EncLabels
      [] for = "frequencyToChannel" -> ChanFreqs
      [] for = "getInterfaceInfoHandler" ->
             AttributeTables
                 \X {<<>>, <<Filled(AttributeTable(
                                    IfaceMsg([n \in Names |-> NoIface],
                                             AP_INTERFACE_NAME, TRUE, FALSE)))>>}

UtilInit ==
    /\ pc = "util"
    /\ nlstate = [gnl_socket |-> "wild", rnl_socket |-> "wild", nl80211_id |-> 0]
    /\ socks = [gnl |-> "none", rnl |-> "none"]
    /\ initFail = "none"
    /\ initResult = [kind |-> "none", val |-> 0]
    /\ cmd = NoCmd
    /\ rx = [rctxErr |-> 1, err |-> 0, multipart |-> FALSE]
    /\ inbuf = <<>>
    /\ delivered = <<>>
    /\ log = <<>>
    /\ held = {}
    /\ preErr = 0
    /\ sent = FALSE
    /\ outcome = NoOutcome
    /\ kern = [n \in Names |-> NoIface]
    /\ interfaces = NoDirectory
    /\ call = NoCall
    /\ cpc = "idle"
    /\ steps = <<>>
    /\ \E for \in Helpers :
         fn \in {[op |-> "none", in |-> [for |-> for, arg |-> a], out |-> <<>>] :
                     a \in UtilInputs(for)}
    /\ arguments = NoArguments
    /\ tpc = NoThreads
    /\ mpc = NotStarted
    /\ interfacesToRestore = <<>>

\* A helper function is about to be called on its argument.
Calling(for) == pc = "util" /\ fn.op = "none" /\ fn.in.for = for

Called(for, out) ==
    /\ fn' = [op |-> for, in |-> fn.in.arg, out |-> out]
    /\ UNCHANGED <<nlvars, ctlvars, thrvars, mainvars>>

GetChanMode ==
    /\ Calling("getChanMode")
    /\ Called("getChanMode", getChanMode(fn.in.arg))

GetCf1 ==
    /\ Calling("getCf1")
    /\ Called("getCf1", getCf1(fn.in.arg[1], fn.in.arg[2]))

MacN2a ==
    /\ Calling("mac_n2a")
    /\ Called("mac_n2a", mac_n2a(fn.in.arg))

MacA2n ==
    /\ Calling("mac_a2n")
    /\ Called("mac_a2n", mac_a2n(fn.in.arg))

\* setInterfaceFrequency(name, f, bw) up to the attributes its handler puts.
SetFrequencyHandler ==
    /\ Calling("setFrequencyHandler")
    /\ Called("setFrequencyHandler", setFrequencyHandler(fn.in.arg[1], fn.in.arg[2]))

\* getInterfaceInfoHandler on one reply, with the builders pushed before it.
GetInterfaceInfoHandler ==
    /\ Calling("getInterfaceInfoHandler")
    /\ Called("getInterfaceInfoHandler", Pushed(fn.in.arg[1], fn.in.arg[2]))

FrequencyToChannel ==
    /\ Calling("frequencyToChannel")
    /\ Called("frequencyToChannel", frequencyToChannel(fn.in.arg))

UtilNext ==
    \/ GetChanMode
    \/ GetCf1
    \/ MacN2a
    \/ MacA2n
    \/ SetFrequencyHandler
    \/ GetInterfaceInfoHandler
    \/ FrequencyToChannel

UtilSpec == UtilInit /\ [][UtilNext]_vars

(***************************************************************************)
(* MainController: initInterface and restoreState.  The controller calls   *)
(* are taken by their outcome: what the kernel did, what the directory     *)
(* holds afterwards, and whether the call returned or threw.  kern and     *)
(* interfaces are functions over HostNames here, and steps is the list of  *)
(* the deleteInterface and createInterface calls issued so far.            *)
(***************************************************************************)

\* The interface initInterface looks for.
INTEL_INTERFACE_NAME == "wlp4s0"

HostNames == {INTEL_INTERFACE_NAME, MONITOR_INTERFACE_NAME}

\* Arguments::arguments.mac
ArgumentsMac == [i \in 1..ETH_ALEN |-> 0]

NoHostIface == [exists |-> FALSE, type |-> "none", mac |-> <<>>, wiphy |-> 0]

HostIface(type, mac, wiphy) ==
    [exists |-> TRUE, type |-> type, mac |-> mac, wiphy |-> wiphy]

\* The station addresses of the host.
HostMacs == {[i \in 1..ETH_ALEN |-> IF i = 1 THEN 0 ELSE 175],
             [i \in 1..ETH_ALEN |-> IF i = ETH_ALEN THEN 10 ELSE 255]}

\* What the kernel holds when the program starts.  A message without the
\* MAC attribute leaves the record's mac text empty.
HostKernels ==
    [HostNames ->
        {NoHostIface} \cup
        {HostIface(ty, m, w) : ty \in {"managed", "monitor"},
                               m \in {<<>>} \cup {<<a>> : a \in HostMacs},
                               w \in {0, 1}}]

NoHostInfo == [has |-> FALSE, ifName |-> "", ifType |-> "none", mac |-> <<>>, wiphy |-> 0]

\* The InterfaceInfo built from the kernel's message about interface n.
HostInfo(k, n) ==
    [has |-> TRUE, ifName |-> n, ifType |-> k[n].type,
     mac |-> IF k[n].mac = <<>> THEN <<>> ELSE mac_n2a(k[n].mac[1]),
     wiphy |-> k[n].wiphy]

\* wifiController.interfaces.clear()
NoHostDirectory == [n \in HostNames |-> NoHostInfo]

clear_Keep(list) == list

\* interfacesToRestore.clear()
clear(list) == <<>>

At(at) == [at |-> at, i |-> 0]

\* One issued controller call.
Issued(in, op, name, type, mac, wiphy) ==
    [in |-> in, op |-> op, name |-> name, type |-> type, mac |-> mac, wiphy |-> wiphy]

IssuedDelete(in, name) == Issued(in, "deleteInterface", name, "none", <<>>, 0)

MainFrame == UNCHANGED <<nlvars, call, cpc, utilvars, thrvars>>

MainInit ==
    /\ pc = "main"
    /\ nlstate = [gnl_socket |-> "wild", rnl_socket |-> "wild", nl80211_id |-> 0]
    /\ socks = [gnl |-> "none", rnl |-> "none"]
    /\ initFail = "none"
    /\ initResult = [kind |-> "none", val |-> 0]
    /\ cmd = NoCmd
    /\ rx = [rctxErr |-> 1, err |-> 0, multipart |-> FALSE]
    /\ inbuf = <<>>
    /\ delivered = <<>>
    /\ log = <<>>
    /\ held = {}
    /\ preErr = 0
    /\ sent = FALSE
    /\ outcome = NoOutcome
    /\ kern \in HostKernels
    /\ interfaces = NoHostDirectory
    /\ call = NoCall
    /\ cpc = "idle"
    /\ steps = <<>>
    /\ fn = NoFn
    /\ arguments = NoArguments
    /\ tpc = NoThreads
    /\ mpc = NotStarted
    /\ interfacesToRestore = <<>>

\* initInterface: wifiController.init() and getAllInterfaces().  A failed
\* dump leaves records for the interfaces reported before the failure.
InitGetAllInterfaces ==
    /\ pc = "main" /\ mpc.at = "off"
    /\ \/ /\ \E seen \in SUBSET {n \in HostNames : kern[n].exists} :
               interfaces' = [n \in HostNames |->
                                 IF n \in seen THEN HostInfo(kern, n) ELSE interfaces[n]]
          /\ mpc' = At("scan")
       \/ /\ mpc' = At("catch")
          /\ UNCHANGED interfaces
    /\ UNCHANGED <<kern, steps, interfacesToRestore>>
    /\ MainFrame

\* The loop over the directory: the record named wlp4s0 is pushed to the
\* restore list, and its delete is the next call.
InitSave ==
    /\ mpc.at = "scan"
    /\ IF interfaces[INTEL_INTERFACE_NAME].has
       THEN /\ interfacesToRestore' =
                   Append(interfacesToRestore, interfaces[INTEL_INTERFACE_NAME])
            /\ mpc' = At("delete")
       ELSE /\ mpc' = At("create")
            /\ UNCHANGED interfacesToRestore
    /\ UNCHANGED <<kern, interfaces, steps>>
    /\ MainFrame

\* deleteInterface(name): the kernel removes the interface, or refuses, or
\* the exchange throws.
DeleteOutcome(in, name, ok, next, failed) ==
    /\ steps' = Append(steps, IssuedDelete(in, name))
    /\ \/ /\ kern' = [kern EXCEPT ![name] = NoHostIface]
          /\ mpc' = ok
       \/ /\ mpc' = ok
          /\ UNCHANGED kern
       \/ /\ mpc' = failed
          /\ UNCHANGED kern
    /\ next

InitDelete ==
    /\ mpc.at = "delete"
    /\ DeleteOutcome("initInterface", interfaces[INTEL_INTERFACE_NAME].ifName,
                     At("create"), UNCHANGED <<interfaces, interfacesToRestore>>,
                     At("catch"))
    /\ MainFrame

\* createInterface(name, type, mac, phy): the kernel creates the interface
\* and the lookup by name records it, or the kernel refuses and the lookup
\* records what exists under that name, or the exchange throws.
CreateOutcome(in, name, type, mac, wiphy, ok, failed) ==
    /\ steps' = Append(steps, Issued(in, "createInterface", name, type, mac, wiphy))
    /\ \/ /\ ~kern[name].exists
          /\ kern' = [kern EXCEPT ![name] = HostIface(type, <<mac>>, wiphy)]
          /\ interfaces' = [interfaces EXCEPT ![name] = HostInfo(kern', name)]
          /\ mpc' = ok
       \/ /\ interfaces' = IF kern[name].exists
                           THEN [interfaces EXCEPT ![name] = HostInfo(kern, name)]
                           ELSE interfaces
          /\ mpc' = ok
          /\ UNCHANGED kern
       \/ /\ mpc' = failed
          /\ UNCHANGED <<kern, interfaces>>

\* createMonitorInterface(intel_phy, ...)
InitCreateMonitor ==
    /\ mpc.at = "create"
    /\ LET intel_phy == IF interfacesToRestore = <<>> THEN 0
                        ELSE interfacesToRestore[Len(interfacesToRestore)].wiphy
       IN  CreateOutcome("initInterface", MONITOR_INTERFACE_NAME, "monitor",
                         ArgumentsMac, intel_phy, At("running"), At("catch"))
    /\ UNCHANGED interfacesToRestore
    /\ MainFrame

\* catch (const std::exception&) without a window: delete instance, whose
\* destructor runs restoreState.
InitCatch ==
    /\ mpc.at = "catch"
    /\ mpc' = At("restoreState")
    /\ UNCHANGED <<kern, interfaces, steps, interfacesToRestore>>
    /\ MainFrame

\* deleteInstance(): ~MainController runs restoreState.
DeleteInstance ==
    /\ mpc.at = "running"
    /\ mpc' = At("restoreState")
    /\ UNCHANGED <<kern, interfaces, steps, interfacesToRestore>>
    /\ MainFrame

\* restoreState: deleteInterface(MONITOR_INTERFACE_NAME).  An exception
\* leaves the destructor and ends the process.
RestoreDeleteMonitor ==
    /\ mpc.at = "restoreState"
    /\ DeleteOutcome("restoreState", MONITOR_INTERFACE_NAME,
                     [at |-> "for", i |-> 1],
                     UNCHANGED <<interfaces, interfacesToRestore>>,
                     At("terminated"))
    /\ MainFrame

\* One round of the loop over interfacesToRestore.
RestoreInterface ==
    /\ mpc.at = "for" /\ mpc.i <= Len(interfacesToRestore)
    /\ LET interface == interfacesToRestore[mpc.i]
           mac == mac_a2n(interface.mac)
           next == [at |-> "for", i |-> mpc.i + 1]
       IN  IF ~mac.ok
           THEN /\ mpc' = next
                /\ UNCHANGED <<kern, interfaces, steps>>
           ELSE CreateOutcome("restoreState", interface.ifName, interface.ifType,
                              mac.out, interface.wiphy, next, At("terminated"))
    /\ UNCHANGED interfacesToRestore
    /\ MainFrame

\* After the loop: both containers are cleared and restoreState returns.
RestoreClear ==
    /\ mpc.at = "for" /\ mpc.i > Len(interfacesToRestore)
    /\ interfacesToRestore' = clear(interfacesToRestore)
    /\ interfaces' = NoHostDirectory
    /\ mpc' = At("restored")
    /\ UNCHANGED <<kern, steps>>
    /\ MainFrame

MainNext ==
    \/ InitGetAllInterfaces
    \/ InitSave
    \/ InitDelete
    \/ InitCreateMonitor
    \/ InitCatch
    \/ DeleteInstance
    \/ RestoreDeleteMonitor
    \/ RestoreInterface
    \/ RestoreClear

MainSpec == MainInit /\ [][MainNext]_vars

(***************************************************************************)
(* Properties.                                                             *)
(***************************************************************************)
Returned == pc = "idle" /\ outcome.kind = "ret"

LogIdx == 1..Len(log)

Ran(k) == \E i \in LogIdx : log[i].cb = k

\* The messages read from the socket so far, in order.
RECURSIVE Flat(_)
Flat(ds) == IF ds = <<>> THEN <<>> ELSE Head(ds) \o Flat(Tail(ds))

\* C1: if the error handler ran for a message with a negative code e,
\* nlExecCommand returns exactly e; and it returns 0 only if the ack or the
\* finish handler ran with no error handler run before it.
C1_KernelErrnoReturned ==
    Returned =>
        /\ \A i \in LogIdx :
              (log[i].cb = "error" /\ log[i].code < 0) => outcome.val = log[i].code
        /\ outcome.val = 0 =>
              \E i \in LogIdx :
                  /\ log[i].cb \in {"ack", "finish"}
                  /\ \A j \in 1..(i - 1) : log[j].cb # "error"

\* An exchange that returned the code of an error message that came after
\* the finish handler had already set the status to 0.
C1_Witness ==
    /\ Returned
    /\ \E i, j \in LogIdx :
          /\ j < i
          /\ log[j].cb = "finish"
          /\ log[i].cb = "error"
          /\ log[i].code < 0
          /\ outcome.val = log[i].code

\* The reply handlers WiFIController passes to nlExecCommand ("none": the
\* no-op default).
ControllerHandlers ==
    {"none", "getInterfaceInfoHandler", "getInterfaceInfoTxPowerHandler"}

\* No kernel error among the messages ms.
NoKernelError(ms) == \A i \in 1..Len(ms) : ms[i].type = "ERROR" => ms[i].code = 0

\* C2: a dump request issued by the controller ends with 0 once the kernel
\* has delivered the finish message that closes its reply: when the datagram
\* ending with DONE has been handled, nlExecCommand is past its receive loop
\* and returns 0 (an empty dump included).
C2_DumpEndsOnFinish ==
    LET ms == Flat(delivered) IN
    (/\ sent
     /\ cmd.dump
     /\ cmd.valid \in ControllerHandlers
     /\ ms # <<>>
     /\ ms[Len(ms)] = DoneMsg
     /\ NoKernelError(ms)
     /\ pc # "dispatch")
    => /\ pc \in {"after_loop", "idle"}
       /\ pc = "idle" => outcome = Return(0)

\* C3: for a dump request the ack handler never runs, so an ack never sets
\* the status to 0: the status is 0, and nlExecCommand returns 0, only after
\* the finish handler ran.
C3_AckNeverEndsDump ==
    (sent /\ cmd.dump) =>
        /\ ~Ran("ack")
        /\ (rx.rctxErr = 0 \/ (Returned /\ outcome.val = 0)) => Ran("finish")

\* A dump that returned 0 after an ack message had been passed through
\* recvmsgs before the finish message.
C3_Witness ==
    /\ sent
    /\ cmd.dump
    /\ Returned
    /\ outcome.val = 0
    /\ \E i, j \in LogIdx :
          /\ i < j
          /\ log[i].type = "ERROR"
          /\ log[i].code = 0
          /\ log[j].cb = "finish"

\* The exchange replayed with another reply handler: recvmsgs over buffer
\* buf from loop state s, Cmd c naming the handler.
RECURSIVE RunBuffer(_, _, _)
RunBuffer(c, s, buf) ==
    LET d == DispatchStep(c, s, buf, HandlerRet(c, Head(buf))) IN
    IF d.pc = "dispatch" THEN RunBuffer(c, d.rx, d.inbuf)
    ELSE [pc |-> d.pc, rx |-> d.rx]

\* The receive loop over datagrams ds; used counts the datagrams read.
RECURSIVE RunExchange(_, _, _)
RunExchange(c, st, ds) ==
    IF ds = <<>> \/ st.pc # "recv" THEN st
    ELSE LET r == RunBuffer(c, st.rx, Head(ds)) IN
         RunExchange(c, [pc |-> r.pc, rx |-> r.rx, used |-> st.used + 1], Tail(ds))

\* The same request with the no-op default handler, over the datagrams read
\* so far.
DefaultRun ==
    RunExchange([cmd EXCEPT !.valid = "none"],
                [pc |-> "recv", used |-> 0,
                 rx |-> [rctxErr |-> 1, err |-> 0, multipart |-> FALSE]],
                delivered)

\* The receive pump did not fail in this exchange.
NoPumpFailure == rx.err \notin PumpErrors

\* C4 (as stated): the reply handler's return value never changes the
\* outcome: over the same kernel messages, the exchange with the Cmd's
\* handler ends at the same message and returns the same value as the
\* exchange with the no-op default handler.
C4_HandlerReturnIrrelevant ==
    (sent /\ NoPumpFailure /\ pc \in {"recv", "after_loop", "idle"}) =>
        /\ DefaultRun.used = Len(delivered)
        /\ (DefaultRun.pc = "recv") = (pc = "recv")
        /\ Returned => outcome.val = ReturnValue(DefaultRun.rx)

\* C4 (amended): the reply handler's return value never writes the status:
\* the status changes only in a step where the error, ack or finish handler
\* runs.  It does steer the dispatch: any value but NL_OK ends the handling
\* of the message before its type is looked at, NL_SKIP goes on with the
\* next message, NL_STOP drops the rest of the datagram, and a negative value
\* ends the receive loop and is the value nlExecCommand returns when no
\* kernel error was recorded.
C4_HandlerReturnSteersDispatch ==
    /\ [](Returned /\ rx.rctxErr >= 0 /\ rx.err < 0 => outcome.val = rx.err)
    /\ [][pc = "dispatch" =>
            LET h == HandlerRet(cmd, Head(inbuf))
                new == {i \in 1..Len(log') : i > Len(log)}
            IN
            /\ rx'.rctxErr # rx.rctxErr =>
                  \E i \in new : log'[i].cb \in {"error", "ack", "finish"}
            /\ h # NL_OK =>
                  /\ rx'.rctxErr = rx.rctxErr
                  /\ \A i \in new : log'[i].cb = "valid"
            /\ h = NL_SKIP => inbuf' = Tail(inbuf)
            /\ h = NL_STOP =>
                  /\ inbuf' = <<>>
                  /\ pc' = IF rx.rctxErr > 0 THEN "recv" ELSE "after_loop"
            /\ h < 0 => inbuf' = <<>> /\ pc' = "after_loop" /\ rx'.err = h
        ]_vars

\* An exchange that returned the negative value of its reply handler, with
\* messages of the same datagram left unhandled.
C4_Witness ==
    /\ Returned
    /\ ~Ran("error")
    /\ outcome.val < 0
    /\ \E i \in LogIdx :
          /\ log[i].cb = "valid"
          /\ log[i].rc = outcome.val
          /\ log[i].pos < Len(delivered[log[i].dg])

\* The messages recvmsgs has looked at so far, as (datagram, position) pairs.
Handled ==
    {x \in (1..Len(delivered)) \X (1..MaxMsgs) :
        /\ x[2] <= Len(delivered[x[1]])
        /\ \E i \in LogIdx : log[i].dg = x[1] /\ log[i].pos = x[2]}

\* The number of times the reply handler ran for the message at x.
HandlerRuns(x) ==
    Cardinality({i \in LogIdx : log[i].cb = "valid" /\ log[i].dg = x[1]
                                   /\ log[i].pos = x[2]})

\* C5: during one nlExecCommand the reply handler runs only for data
\* messages, never for an ack, an error or a finish message, and once for
\* each data message handled.
C5_HandlerOncePerDataMessage ==
    /\ \A i \in LogIdx : log[i].cb = "valid" => log[i].type = "DATA"
    /\ \A x \in Handled :
          delivered[x[1]][x[2]].type = "DATA" => HandlerRuns(x) = 1

\* C6 (as stated): after the finish handler ran for a message, no later
\* message of the same datagram is handed to any handler, and the status
\* stays 0.
C6_NothingAfterFinish ==
    /\ \A i, j \in LogIdx :
          (log[i].cb = "finish" /\ i < j) => log[j].dg # log[i].dg
    /\ Ran("finish") => rx.rctxErr = 0

\* C6 (amended): the finish handler stores 0 and skips only the finish
\* message itself: the messages after it in the same datagram are still
\* dispatched, the loop ends when the datagram is used up, and the status 0
\* changes only when the error handler runs for a later message.
C6_FinishSkipsOnlyItself ==
    /\ [](\A i \in LogIdx :
            (log[i].cb = "finish" /\ rx.rctxErr # 0) =>
                \E j \in LogIdx : j > i /\ log[j].cb = "error"
                                        /\ rx.rctxErr = error_handler(log[j].code).status)
    /\ [][(pc = "dispatch" /\ Head(inbuf).type = "DONE"
                           /\ HandlerRet(cmd, Head(inbuf)) = NL_OK) =>
            /\ rx'.rctxErr = 0
            /\ log'[Len(log')].cb = "finish"
            /\ inbuf' = Tail(inbuf)
            /\ pc' = IF Tail(inbuf) # <<>> THEN "dispatch" ELSE "after_loop"
        ]_vars

\* A datagram in which an error message followed the finish message and
\* replaced the status 0 by its code.
C6_Witness ==
    \E i, j \in LogIdx :
        /\ i < j
        /\ log[i].cb = "finish"
        /\ log[j].cb = "error"
        /\ log[j].dg = log[i].dg
        /\ log[j].code < 0
        /\ rx.rctxErr = log[j].code

\* C7: when the pre-send handler returns a non-zero value, nothing is sent,
\* no datagram is read, no callback runs, and nlExecCommand ends by raising
\* the pre-execute failure.
C7_PreSendFailureAborts ==
    (cmd.pre # "none" /\ preErr # 0) =>
        /\ ~sent
        /\ delivered = <<>>
        /\ log = <<>>
        /\ pc = "idle"
        /\ outcome = Throw("pre_execute")

\* A SET_WIPHY whose pre-send handler failed to append its attributes.
C7_Witness ==
    /\ pc = "idle"
    /\ cmd.pre = "setTxPowerHandler"
    /\ preErr = -ENOBUFS
    /\ outcome.kind = "throw"
    /\ ~sent

\* C8: when nlExecCommand has ended, by return or by raising, it holds none
\* of the references it took (message buffer, cb, s_cb).
C8_AllReleasedOnExit ==
    (pc = "idle" /\ outcome.kind \in {"ret", "throw"}) => held = {}

\* C9 (as stated): when the route connect fails, only the route socket is
\* released; the generic socket stays allocated, connected and resolved.
C9_RouteFailureKeepsGeneric ==
    (pc # "start" /\ initFail = "rnl_connect") =>
        /\ socks.rnl = "freed"
        /\ nlstate.gnl_socket = "sock"
        /\ socks.gnl = "connected"
        /\ nlstate.nl80211_id >= 0

\* C9 (amended): when the route connect fails, nlInit releases both the
\* route and the generic socket, nulls both handles and returns -ENOLINK;
\* only the resolved family id is left.
C9_RouteFailureReleasesBoth ==
    (pc # "start" /\ initFail = "rnl_connect") =>
        /\ socks = [gnl |-> "freed", rnl |-> "freed"]
        /\ nlstate.gnl_socket = "null"
        /\ nlstate.rnl_socket = "null"
        /\ nlstate.nl80211_id >= 0
        /\ initResult = [kind |-> "ret", val |-> -ENOLINK]

\* nlInit has ended on a failed route connect.
C9_Witness ==
    /\ pc = "idle"
    /\ initFail = "rnl_connect"
    /\ initResult.val = -ENOLINK
    /\ socks.rnl = "freed"

\* C10: after nlInit ended, by return or by raising, the generic handle is
\* non-null only if the family was resolved (and then it names a connected
\* socket); when the generic allocation, connect or resolution failed, the
\* handle is null and no generic socket object is left alive.
C10_GenericHandleOnlyIfResolved ==
    pc # "start" =>
        /\ nlstate.gnl_socket # "null" =>
              /\ initFail \notin {"gnl_alloc", "gnl_connect", "resolve"}
              /\ nlstate.nl80211_id >= 0
              /\ nlstate.gnl_socket = "sock"
              /\ socks.gnl = "connected"
        /\ initFail \in {"gnl_alloc", "gnl_connect", "resolve"} =>
              /\ nlstate.gnl_socket = "null"
              /\ socks.gnl \in {"none", "freed"}
              /\ initResult.kind = "ret"
              /\ initResult.val < 0

\* nlInit has ended on a failed family resolution, after the generic socket
\* had been connected.
C10_Witness ==
    /\ pc = "idle"
    /\ initFail = "resolve"
    /\ nlstate.nl80211_id < 0
    /\ nlstate.gnl_socket = "null"
    /\ socks.gnl = "freed"

(***************************************************************************)
(* Claims about the controller after session connect.                      *)
(***************************************************************************)
\* The session connect failed.
InitFailed == initFail # "none"

\* C11: after a failed session initialization the controller stays callable:
\* init() reports nothing to its caller (it does not raise), and every
\* protocol call made afterwards ends with an error outcome: it never returns
\* success and never operates on a released or absent socket handle.
C11_FailedInitCallsFail ==
    InitFailed =>
        /\ initResult.kind # "throw"
        /\ pc # "crashed"
        /\ sent => nlstate.gnl_socket = "sock" /\ socks.gnl = "connected"
        /\ outcome.kind # "none" =>
              \/ outcome.kind = "throw"
              \/ outcome.kind = "ret" /\ outcome.val # 0

\* The last call was op and returned to its caller.
ReturnedFrom(op) == call.op = op /\ call.end = "ret"

\* The exchanges of the last call that went out to the kernel.
SentExecs == {i \in 1..Len(call.execs) : call.execs[i].out.kind \in {"ret", "hang"}}

\* C12: setInterfaceFrequency(name, f, bw) returns 0 if and only if the
\* record of the re-query that follows the SET_WIPHY exchange reports
\* frequency f; with another frequency reported it returns a failure value,
\* also when the SET_WIPHY exchange itself returned 0.
C12_FrequencyVerifiedByRequery ==
    ReturnedFrom("setInterfaceFrequency") =>
        /\ call.val = 0 <=> (call.info.has /\ call.info.freq = call.arg)
        /\ Len(call.execs) >= 2
        /\ call.execs[1].id = "SET_WIPHY" /\ call.execs[1].out.kind = "ret"
        /\ call.execs[2].id = "GET_INTERFACE"

\* The kernel acknowledged SET_WIPHY without applying it: the call fails.
C12_Witness ==
    /\ ReturnedFrom("setInterfaceFrequency")
    /\ call.execs[1].out = Return(0)
    /\ call.info.has /\ call.info.freq # call.arg
    /\ call.val # 0

\* C13: setInterfaceTxPower(name, p) sends the fixed-power setting attribute
\* followed by the power level 100 * p, and returns 0 when the getInterfaceInfo
\* that follows reports txdBm = p, a failure value when it reports another.
C13_TxPowerLevelAndVerification ==
    call.op = "setInterfaceTxPower" =>
        /\ 1 \in SentExecs =>
              /\ call.execs[1].id = "SET_WIPHY"
              /\ call.execs[1].attrs =
                    << [attr |-> "WIPHY_TX_POWER_SETTING", val |-> NL80211_TX_POWER_FIXED],
                       [attr |-> "WIPHY_TX_POWER_LEVEL", val |-> 100 * call.arg] >>
        /\ call.end = "ret" /\ call.info.has =>
              /\ call.info.txdBm = call.arg => call.val = 0
              /\ call.info.txdBm # call.arg => call.val # 0

\* setInterfaceTxPower(name, -5): level -500 sent, -5 reported, 0 returned.
C13_Witness ==
    /\ ReturnedFrom("setInterfaceTxPower")
    /\ call.arg = -5
    /\ 1 \in SentExecs
    /\ AttrVals(call.execs[1].attrs, "WIPHY_TX_POWER_LEVEL") = {-500}
    /\ call.info.has /\ call.info.txdBm = -5
    /\ call.val = 0

\* C14: getInterfaceInfo(interfaceIndex) behaves as the query by name: the
\* record it returns is built from the kernel's reply to the GET_INTERFACE
\* exchange of this call and is stored in the directory; it handles the reply
\* it asked for and never returns an entry that was in the directory before.
C14_IndexQueryAsByName ==
    call.op = "getInterfaceInfoByIndex" =>
        /\ call.why # "null builders"
        /\ call.end = "ret" /\ call.info.has =>
              /\ call.execs[1].out = Return(0)
              /\ interfaces[call.info.ifName] = call.info
              /\ call.info.freq = kern[call.info.ifName].freq

\* The first exchange of the last call ended with a kernel error or with a
\* transport error (an exception of nlExecCommand).
FirstExchangeFailed ==
    /\ call.execs # <<>>
    /\ \/ call.execs[1].out.kind = "throw"
       \/ call.execs[1].out.kind = "ret" /\ call.execs[1].out.val # 0

\* C15: when the SET_WIPHY exchange of setInterfaceFrequency or
\* setInterfaceTxPower ends with a kernel or transport error, the operation
\* does not return 0.
C15_SetWiphyErrorSurfaced ==
    /\ call.op \in {"setInterfaceFrequency", "setInterfaceTxPower"}
    /\ FirstExchangeFailed
    => ~(call.end = "ret" /\ call.val = 0)

\* The operations of the directory and the control operations.
DirectoryOps ==
    {"getAllInterfaces", "getInterfaceInfo", "createInterface", "deleteInterface",
     "setInterfaceFrequency", "setInterfaceTxPower"}

\* The failures of an exchange before it is sent, and of the send.
ExchangeFailures == {"nla_put", "pre_execute", "send"}

SetOps ==
    {"setInterfaceTxPower", "setInterfaceTxPowerByIndex",
     "setInterfaceFrequency", "setInterfaceFrequencyByIndex"}

\* C17: every call of setInterfaceTxPower and setInterfaceFrequency, by name
\* or by index, whose exchanges all returned, returns 0 or -1 and nothing
\* else, also when the re-query does not find the interface.
C17_SetOpsReturnZeroOrMinusOne ==
    /\ call.op \in SetOps
    /\ call.end \in {"ret", "throw"}
    /\ \A i \in 1..Len(call.execs) : call.execs[i].out.kind = "ret"
    => call.end = "ret" /\ call.val \in {0, -1}

\* C18: setInterfaceStatus returns -ENOTCONN without contacting the kernel
\* whenever the route socket was never connected; -ENOMEM when the modified
\* link cannot be allocated; and 0 only after the link change with the
\* original link's index and IFF_UP set or cleared was applied.
C18_StatusReturnCodes ==
    call.op = "setInterfaceStatus" =>
        /\ socks.rnl # "connected" =>
              call.end = "ret" /\ call.val = -ENOTCONN /\ call.execs = <<>>
        /\ call.why = "link_alloc" => call.end = "ret" /\ call.val = -ENOMEM
        /\ call.end = "ret" /\ call.val = 0 =>
              /\ Len(call.execs) = 1
              /\ call.execs[1].id = "RTM_NEWLINK"
              /\ call.execs[1].device = KernIndex(call.name)
              /\ call.execs[1].attrs = <<[attr |-> "IFF_UP", val |-> (call.arg = 1)]>>
              /\ kern[call.name].up = (call.arg = 1)

\* The operation in progress or just ended is createMonitorInterface or
\* createApInterface.
Creating == call.op \in {"createMonitorInterface", "createApInterface"}

\* The positions in steps of the calls of step s.
StepsOf(s) == {i \in 1..Len(steps) : steps[i].step = s}

\* Step i returned success.
Succeeded(i) == steps[i].end = "ret" /\ steps[i].val = 0

\* C19: createMonitorInterface and createApInterface run create, link-up,
\* frequency-set in this order: setInterfaceStatus(up) is issued only after
\* createInterface returned success, the first setInterfaceFrequency only
\* after setInterfaceStatus returned success, and when create or link-up
\* fails the operation returns without a later step.
C19_CreateOrder ==
    Creating =>
        /\ steps # <<>> /\ StepsOf("createInterface") = {1}
        /\ steps[1].name = call.name
        /\ StepsOf("setInterfaceStatus") \subseteq {2}
        /\ 2 \in StepsOf("setInterfaceStatus") =>
              Succeeded(1) /\ steps[2].name = call.name
        /\ \A i \in StepsOf("setInterfaceFrequency") :
              i >= 3 /\ 2 \in StepsOf("setInterfaceStatus") /\ Succeeded(2)
        /\ \A i \in {1, 2} :
              i <= Len(steps) /\ steps[i].end = "ret" /\ steps[i].val < 0 =>
                  Len(steps) = i /\ call.end = "ret" /\ cpc = "idle"

\* createApInterface returned after createInterface succeeded and the link-up
\* failed, with no later step.
C19_Witness ==
    /\ call.op = "createApInterface"
    /\ Len(steps) = 2
    /\ Succeeded(1)
    /\ steps[2].step = "setInterfaceStatus" /\ steps[2].val < 0
    /\ call.end = "ret"

\* C20: once createMonitorInterface is in its frequency loop it returns only
\* after a setInterfaceFrequency attempt succeeded; exactly one rfkill
\* unblock is executed between two consecutive attempts; while every attempt
\* has failed the operation does not return.
C20_FrequencyLoop ==
    call.op = "createMonitorInterface" /\ StepsOf("setInterfaceFrequency") # {} =>
        /\ call.end = "ret" =>
              /\ steps[Len(steps)].step = "setInterfaceFrequency"
              /\ Succeeded(Len(steps))
        /\ \A i \in StepsOf("setInterfaceFrequency") :
              /\ i > 3 => /\ steps[i - 1].step = "rfkill_unblock"
                          /\ steps[i - 2].step = "setInterfaceFrequency"
                          /\ steps[i - 2].end = "ret" /\ steps[i - 2].val < 0
              /\ i < Len(steps) => steps[i + 1].step = "rfkill_unblock"
        /\ \A i \in StepsOf("rfkill_unblock") :
              i > 3 /\ steps[i - 1].step = "setInterfaceFrequency"
        /\ (\A i \in StepsOf("setInterfaceFrequency") : ~Succeeded(i)) =>
              call.end # "ret"

\* createMonitorInterface returned after a failed attempt, one unblock and a
\* successful attempt.
C20_Witness ==
    /\ call.op = "createMonitorInterface"
    /\ call.end = "ret"
    /\ Len(steps) = 5
    /\ steps[3].step = "setInterfaceFrequency" /\ steps[3].val < 0
    /\ steps[4].step = "rfkill_unblock"
    /\ steps[5].step = "setInterfaceFrequency" /\ Succeeded(5)

\* C21: every setInterfaceFrequency attempt of createApInterface names the AP
\* interface the call created and brought up, and createApInterface returns
\* from its frequency loop only when that interface is on the requested
\* frequency.
C21_ApFrequencyTargetsAp ==
    call.op = "createApInterface" =>
        /\ \A i \in StepsOf("setInterfaceFrequency") :
              steps[i].name = AP_INTERFACE_NAME /\ steps[i].name = steps[1].name
        /\ call.end = "ret" /\ StepsOf("setInterfaceFrequency") # {} =>
              kern[AP_INTERFACE_NAME].freq = call.arg

\* The threads inside nlExecCommand on the controller session.
InExchange == {t \in Threads : tpc[t].exec}

\* C22: at no time are two threads of the application inside a command
\* exchange (nlExecCommand) on the same controller session.
C22_OneThreadPerSession == Cardinality(InExchange) <= 1

(***************************************************************************)
(* Claims about the helper functions.                                      *)
(***************************************************************************)
\* The table entries a label names, whatever the case of its letters.
EntriesNamed(label) == {i \in 1..Len(chanMode) : label \in CaseVariants(chanMode[i].name)}

\* C23: getChanMode is a total, case-insensitive lookup: for a label of the
\* table in any upper/lower-case spelling it returns that entry's width,
\* freq1_diff and chantype, and for a label that matches no entry it returns
\* the all-zero mode.
C23_GetChanModeCaseInsensitive ==
    fn.op = "getChanMode" =>
        /\ \A i \in EntriesNamed(fn.in) :
               /\ fn.out.width = chanMode[i].width
               /\ fn.out.freq1_diff = chanMode[i].freq1_diff
               /\ fn.out.chantype = chanMode[i].chantype
        /\ EntriesNamed(fn.in) = {} =>
               fn.out.width = 0 /\ fn.out.freq1_diff = 0 /\ fn.out.chantype = 0

C23_Witness ==
    /\ fn.op = "getChanMode"
    /\ fn.in = <<"h", "t", "4", "0", "-">>
    /\ fn.out.width = NL80211_CHAN_WIDTH_40
    /\ fn.out.freq1_diff = -10
    /\ fn.out.chantype = NL80211_CHAN_HT40MINUS


\* The starts s of table with s <= freq < s + span.
SegmentsHolding(table, span, freq) ==
    {table[j] : j \in {i \in 1..Len(table) : freq >= table[i] /\ freq < table[i] + span}}

\* getCf1's result out for mode m and frequency f is the start of a segment
\* holding f plus offset; f + freq1_diff when no segment holds f.
SegmentCenter(table, span, offset, m, f, out) ==
    IF SegmentsHolding(table, span, f) # {}
    THEN \E s \in SegmentsHolding(table, span, f) : out = s + offset
    ELSE out = f + m.freq1_diff

\* C24 as stated: for widths 80, 160 and 320 MHz, if s is the table entry of
\* that width whose segment [s, s + width) contains f, getCf1 returns s + 30,
\* s + 70 or s + 150; if no segment of that width contains f it returns
\* f + freq1_diff; for every other width it returns f + freq1_diff.
C24_SegmentsOfChannelWidth ==
    fn.op = "getCf1" =>
        LET m == fn.in[1]
            f == fn.in[2]
        IN IF m.width = NL80211_CHAN_WIDTH_80
           THEN SegmentCenter(bw80, 80, 30, m, f, fn.out)
           ELSE IF m.width = NL80211_CHAN_WIDTH_160
           THEN SegmentCenter(bw160, 160, 70, m, f, fn.out)
           ELSE IF m.width = NL80211_CHAN_WIDTH_320
           THEN SegmentCenter(bw320, 320, 150, m, f, fn.out)
           ELSE fn.out = f + m.freq1_diff

\* C24, amended: the segments of the 320 MHz table are [s, s + 160), those
\* of the 80 and 160 MHz tables [s, s + width); getCf1 returns the start of
\* the first segment holding f plus 30, 70 or 150, and f when no segment of
\* the width holds f; for every other width it returns f + freq1_diff.
C24_SegmentsAsSearched ==
    fn.op = "getCf1" =>
        LET m == fn.in[1]
            f == fn.in[2]
            s80 == SegmentsHolding(bw80, 80, f)
            s160 == SegmentsHolding(bw160, 160, f)
            s320 == SegmentsHolding(bw320, 160, f)
        IN IF m.width = NL80211_CHAN_WIDTH_80
           THEN fn.out = IF s80 = {} THEN f ELSE Least(s80) + 30
           ELSE IF m.width = NL80211_CHAN_WIDTH_160
           THEN fn.out = IF s160 = {} THEN f ELSE Least(s160) + 70
           ELSE IF m.width = NL80211_CHAN_WIDTH_320
           THEN fn.out = IF s320 = {} THEN f ELSE Least(s320) + 150
           ELSE fn.out = f + m.freq1_diff

\* A 320 MHz lookup in the second half of an entry's 320 MHz and the first
\* half of the next entry's.
C24_Witness ==
    /\ fn.op = "getCf1"
    /\ fn.in[1].width = NL80211_CHAN_WIDTH_320
    /\ fn.in[2] = 6200
    /\ fn.out = 6265


\* Every entry of table is greater than the one before it.
StrictlyAscending(table) == \A i \in 1..(Len(table) - 1) : table[i] < table[i + 1]

\* C25: the segment-start tables getCf1 searches are strictly ascending and
\* have 20 (80 MHz), 9 (160 MHz) and 6 (320 MHz) entries: no start frequency
\* occurs twice and every entry is greater than the one before it.
C25_TablesStrictlyAscending ==
    fn.op = "getCf1" =>
        /\ Len(bw80) = 20 /\ Len(bw160) = 9 /\ Len(bw320) = 6
        /\ StrictlyAscending(bw80) /\ StrictlyAscending(bw160) /\ StrictlyAscending(bw320)


\* The characters of text that are hex digits.
HexDigitsOf(text) ==
    {i \in 1..Len(text) : PosIn(HexLower, text[i]) > 0 \/ PosIn(HexUpper, text[i]) > 0}

\* Lowercase colon-separated hex: six pairs of lower-case digits with colons
\* between them.
ColonHex(text) ==
    /\ Len(text) = 17
    /\ \A i \in 1..17 : IF i % 3 = 0 THEN text[i] = ":" ELSE PosIn(HexLower, text[i]) > 0

\* C26: for every 6-byte address b, mac_n2a(b) is lowercase colon-separated
\* hex and mac_a2n(mac_n2a(b)) succeeds and yields b; mac_a2n rejects every
\* string whose hex-digit count is not 12 or that contains a character that
\* is neither a hex digit nor one of ':', '-', space, tab.
C26_MacRoundTrip ==
    /\ fn.op = "mac_n2a" =>
           /\ ColonHex(fn.out)
           /\ mac_a2n(fn.out) = [ok |-> TRUE, out |-> fn.in]
    /\ (/\ fn.op = "mac_a2n"
        /\ \/ Cardinality(HexDigitsOf(fn.in)) # 12
           \/ \E i \in 1..Len(fn.in) :
                  i \notin HexDigitsOf(fn.in) /\ fn.in[i] \notin {":", "-", " ", "\t"})
           => ~fn.out.ok

C26_Witness ==
    /\ fn.op = "mac_n2a"
    /\ fn.in = <<0, 10, 175, 255, 10, 0>>
    /\ fn.out = <<"0", "0", ":", "0", "a", ":", "a", "f", ":", "f", "f", ":",
                  "0", "a", ":", "0", "0">>

\* mac_a2n turning down a text of 13 hex digits and one of a foreign character.
C26_RejectWitness ==
    /\ fn.op = "mac_a2n"
    /\ ~fn.out.ok
    /\ Cardinality(HexDigitsOf(fn.in)) = 13


\* C27: the interface-enumeration decoder adds a builder to the result
\* collection if and only if the reply carries an interface-index attribute,
\* the record finalized from such a builder has ifIndex equal to the
\* attribute's value, and build() yields index 0 only when no index was
\* supplied.
C27_BuilderAddedIffIndexed ==
    fn.op = "getInterfaceInfoHandler" =>
        LET table == fn.in[1]
            before == fn.in[2]
        IN /\ IF table.ifindex # <<>>
              THEN /\ Len(fn.out) = Len(before) + 1
                   /\ SubSeq(fn.out, 1, Len(before)) = before
                   /\ build(fn.out[Len(fn.out)]).ifIndex = table.ifindex[1]
              ELSE fn.out = before
           /\ \A i \in 1..Len(fn.out) :
                  build(fn.out[i]).ifIndex = 0 => fn.out[i].index = <<>>
           /\ build(Filled(table)).ifIndex = 0 => table.ifindex = <<>>

C27_Witness ==
    /\ fn.op = "getInterfaceInfoHandler"
    /\ fn.in[1].ifindex = <<3>>
    /\ fn.in[1].ifname = <<>>
    /\ Len(fn.in[2]) = 1
    /\ Len(fn.out) = 2
    /\ build(fn.out[2]).ifIndex = 3

\* A reply without the index attribute leaves the collection as it was.
C27_SkipWitness ==
    /\ fn.op = "getInterfaceInfoHandler"
    /\ fn.in[1].ifindex = <<>>
    /\ fn.in[1].ifname # <<>>
    /\ fn.out = fn.in[2]


\* The data messages among those a reply handler saw.
DataSeen(seen) == SelectSeq(seen, LAMBDA m : m.type = "DATA")

\* The tx power (dBm) a GET_WIPHY dump that showed its handler the messages
\* seen recovers for the interface of reply m: the level of the dump, and
\* what the reply itself carried when the dump brought none.
TxPowerRecovered(m, seen) ==
    LET levels == SelectSeq(DataSeen(seen), LAMBDA x : x.txp)
    IN IF levels # <<>> THEN CDiv(levels[Len(levels)].mbm, 100)
       ELSE IF m.txp THEN U32Div100(m.mbm) ELSE 0

\* The record of the interface of reply m with the tx power of its dump.
RecordOf(m, seen) ==
    [has |-> TRUE, ifName |-> m.ifname, ifType |-> m.iftype, ifIndex |-> m.ifindex,
     wdev |-> m.wdev, freq |-> m.freq, txdBm |-> TxPowerRecovered(m, seen)]

\* A step in which getAllInterfaces runs and returns.
GetAllInterfacesReturns ==
    call.end = "none" /\ call'.op = "getAllInterfaces" /\ call'.end = "ret"

C29_FrequencyEncoding ==
    (fn.op = "setFrequencyHandler" /\ EntriesNamed(fn.in[2]) # {}) =>
        LET f == fn.in[1]
            mode == getChanMode(fn.in[2])
            cf1 == getCf1(mode, f)
        IN /\ AttrVals(fn.out, "WIPHY_FREQ") = {f}
           /\ AttrVals(fn.out, "WIPHY_FREQ_OFFSET") = {0}
           /\ AttrVals(fn.out, "CHANNEL_WIDTH") = {mode.width}
           /\ AttrVals(fn.out, "CENTER_FREQ1") = (IF cf1 # 0 THEN {cf1} ELSE {})
           /\ 0 \notin AttrVals(fn.out, "CENTER_FREQ1_OFFSET")
           /\ (f = 5180 /\ fn.in[2] = <<"8", "0">>) =>
                  /\ AttrVals(fn.out, "WIPHY_FREQ") = {5180}
                  /\ AttrVals(fn.out, "CHANNEL_WIDTH") = {NL80211_CHAN_WIDTH_80}
                  /\ AttrVals(fn.out, "CENTER_FREQ1") = {5210}

\* C29 for the frequencies of 16 bits: what the encoder does with the
\* frequency it read.
C29_FrequencyEncoding16 ==
    (fn.op = "setFrequencyHandler" /\ fn.in[1] < 65536) => C29_FrequencyEncoding

\* The example of C29.
C29_Example ==
    /\ fn.op = "setFrequencyHandler"
    /\ fn.in = <<5180, <<"8", "0">>>>
    /\ AttrVals(fn.out, "WIPHY_FREQ") = {5180}
    /\ AttrVals(fn.out, "CHANNEL_WIDTH") = {NL80211_CHAN_WIDTH_80}
    /\ AttrVals(fn.out, "CENTER_FREQ1") = {5210}

\* C30: the control-frequency attribute sent by setInterfaceFrequency(name,
\* f, bw) equals f for every unsigned 32-bit frequency f in MHz, also for
\* f > 65535: the frequency is never truncated to fewer than 32 bits between
\* the caller and the encoded attribute.
C30_FrequencyNotTruncated ==
    fn.op = "setFrequencyHandler" =>
        \E i \in 1..Len(fn.out) : fn.out[i] = [attr |-> "WIPHY_FREQ", val |-> fn.in[1]]


\* The dBm value getInterfaceInfoTxPowerHandler leaves in a builder for a
\* reply carrying the level m.
TxPowerDecoded(m) ==
    build(TxPowerBuilder(Filled(AttributeTable(
                             IfaceMsg([n \in Names |-> NoIface],
                                      MONITOR_INTERFACE_NAME, TRUE, FALSE))),
                         << [type |-> "DATA", txp |-> TRUE, mbm |-> m] >>)).txdBm

\* C31: the interface-enumeration decoder converts a tx-power attribute of m
\* hundredths of dBm to m / 100 dBm with m taken as a signed 32-bit value, so
\* that -500 yields -5 dBm, the value the TX-power decoder yields for the
\* same attribute.
C31_EnumerationTxPowerSigned ==
    (/\ fn.op = "getInterfaceInfoHandler"
     /\ fn.in[1].ifindex # <<>>
     /\ fn.in[1].txlevel # <<>>) =>
        LET m == fn.in[1].txlevel[1]
            tx == build(fn.out[Len(fn.out)]).txdBm
        IN /\ tx = CDiv(m, 100)
           /\ tx = TxPowerDecoded(m)
           /\ m = -500 => tx = -5


\* C32: the wireless-device id of a finalized interface record is the full
\* 64-bit wdev value the kernel reply carries, also with non-zero upper 32
\* bits: nothing between decoding and the record reduces it modulo 2^32.
C32_WdevKept64 ==
    (/\ fn.op = "getInterfaceInfoHandler"
     /\ fn.in[1].ifindex # <<>>
     /\ fn.in[1].wdev # <<>>) =>
        build(fn.out[Len(fn.out)]).wdev = fn.in[1].wdev[1]


\* C33: the legacy channel-type attribute the frequency encoder appends is
\* chosen by width and agrees with the resolved mode: NO_HT for width
\* 20_NOHT, HT20 for width 20, HT40PLUS for label "40" and HT40MINUS for
\* label "HT40-" (the table entry's chantype), and none for any other width.
C33_ChannelTypeByWidth ==
    fn.op = "setFrequencyHandler" =>
        LET mode == getChanMode(fn.in[2])
            types == AttrVals(fn.out, "WIPHY_CHANNEL_TYPE")
            puts == {i \in 1..Len(fn.out) : fn.out[i].attr = "WIPHY_CHANNEL_TYPE"}
        IN /\ Cardinality(puts) <= 1
           /\ mode.width = NL80211_CHAN_WIDTH_20_NOHT => types = {NL80211_CHAN_NO_HT}
           /\ mode.width = NL80211_CHAN_WIDTH_20 => types = {NL80211_CHAN_HT20}
           /\ mode.width = NL80211_CHAN_WIDTH_40 => types = {mode.chantype}
           /\ fn.in[2] = <<"4", "0">> => types = {NL80211_CHAN_HT40PLUS}
           /\ fn.in[2] = <<"H", "T", "4", "0", "-">> => types = {NL80211_CHAN_HT40MINUS}
           /\ mode.width \notin {NL80211_CHAN_WIDTH_20_NOHT, NL80211_CHAN_WIDTH_20,
                                 NL80211_CHAN_WIDTH_40} => types = {}

C33_Witness ==
    /\ fn.op = "setFrequencyHandler"
    /\ fn.in = <<5180, <<"H", "T", "4", "0", "-">>>>
    /\ AttrVals(fn.out, "WIPHY_CHANNEL_TYPE") = {NL80211_CHAN_HT40MINUS}
    /\ AttrVals(fn.out, "CENTER_FREQ1") = {5170}


\* An exchange that ended with a kernel or transport error.
ExchangeFailed(x) ==
    \/ x.out.kind = "throw"
    \/ x.out.kind = "ret" /\ x.out.val < 0

\* C34: a directory entry is created or overwritten only by a query whose
\* exchanges succeeded: when the GET_INTERFACE exchange of getAllInterfaces
\* or getInterfaceInfo(name), or a GET_WIPHY exchange that follows it, ends
\* with a kernel or transport error, the call leaves the directory unchanged.
C34_FailedQueryKeepsDirectory ==
    [][(/\ call.end = "none"
        /\ call'.op \in {"getAllInterfaces", "getInterfaceInfo"}
        /\ call'.end \in {"ret", "throw"}
        /\ \E i \in 1..Len(call'.execs) : ExchangeFailed(call'.execs[i]))
           => interfaces' = interfaces]_vars


\* The calls restoreState has issued so far.
RestoreCalls == SelectSeq(steps, LAMBDA s : s.in = "restoreState")

\* The createInterface calls owed to a restore list: one for every entry
\* whose MAC text parses, with the entry's name, type, MAC and phy.
RECURSIVE SavedCreates(_)
SavedCreates(list) ==
    IF list = <<>> THEN <<>>
    ELSE LET interface == Head(list)
             mac == mac_a2n(interface.mac)
         IN  (IF mac.ok
              THEN << Issued("restoreState", "createInterface", interface.ifName,
                             interface.ifType, mac.out, interface.wiphy) >>
              ELSE <<>>) \o SavedCreates(Tail(list))

\* C35: every interface initInterface deletes is already on the restore
\* list when its delete is issued; and when restoreState returns it has
\* issued the delete of the monitor interface first, then one createInterface
\* with the saved name, type, MAC and phy for every restore-list entry whose
\* MAC text parses, and the restore list and the directory are both empty.
C35_SaveBeforeDeleteAndRestore ==
    [][/\ (Len(steps') = Len(steps) + 1 /\ steps'[Len(steps')].in = "initInterface"
                                        /\ steps'[Len(steps')].op = "deleteInterface")
          => \E i \in 1..Len(interfacesToRestore) :
                 interfacesToRestore[i].ifName = steps'[Len(steps')].name
       /\ (mpc.at = "for" /\ mpc'.at = "restored")
          => /\ RestoreCalls' = << IssuedDelete("restoreState", MONITOR_INTERFACE_NAME) >>
                                   \o SavedCreates(interfacesToRestore)
             /\ interfacesToRestore' = <<>>
             /\ \A n \in HostNames : ~interfaces'[n].has]_vars

\* restoreState has returned after saving wlp4s0, deleting it and creating
\* it again with the address the kernel reported for it.
C35_Witness ==
    /\ mpc.at = "restored"
    /\ interfacesToRestore = <<>>
    /\ \E i, j \in 1..Len(steps) :
         /\ i < j
         /\ steps[i] = IssuedDelete("initInterface", INTEL_INTERFACE_NAME)
         /\ steps[j].in = "restoreState" /\ steps[j].op = "createInterface"
         /\ steps[j].name = INTEL_INTERFACE_NAME
         /\ steps[j].mac \in HostMacs
         /\ kern[INTEL_INTERFACE_NAME] = HostIface(steps[j].type, <<steps[j].mac>>, steps[j].wiphy)

\* restoreState has returned without a createInterface for a saved interface
\* whose MAC text does not parse.
C35_SkipWitness ==
    /\ mpc.at = "restored"
    /\ \E i \in 1..Len(steps) : steps[i] = IssuedDelete("initInterface", INTEL_INTERFACE_NAME)
    /\ \A j \in 1..Len(steps) : steps[j].op = "createInterface" => steps[j].in = "initInterface"


\* C36: a step in which the receive pump fails (nl_recvmsgs returns a
\* negative code) leaves the receive loop at once; nlExecCommand then
\* returns a negative value: the pump's code when no kernel error was
\* recorded, and the kernel's error code when one was.
C36_PumpFailureEndsLoop ==
    [][/\ (pc \in {"recv", "dispatch"} /\ rx'.err < 0) => pc' = "after_loop"
       /\ (pc = "after_loop" /\ rx.err < 0)
          => /\ outcome'.kind = "ret"
             /\ outcome'.val < 0
             /\ rx.rctxErr >= 0 => outcome'.val = rx.err
             /\ rx.rctxErr < 0 => outcome'.val = rx.rctxErr]_vars

\* nl_recv failed with the status still in progress and nlExecCommand
\* returned the pump's code.
C36_Witness ==
    /\ Returned
    /\ rx.rctxErr > 0
    /\ rx.err \in PumpErrors
    /\ outcome.val = rx.err

\* The pump failed after a kernel error had been recorded, and the kernel's
\* code was returned.
C36_KernelPreferredWitness ==
    /\ Returned
    /\ rx.rctxErr < 0
    /\ rx.err < 0
    /\ rx.err # rx.rctxErr
    /\ outcome.val = rx.rctxErr


\* C37: every GET_WIPHY dump exchange with the TX-power decoder ends once
\* the kernel has delivered the finish message, wherever the message with
\* the tx power and the finish message sit in the datagrams: no such
\* exchange is left waiting in the receive loop.
C37_TxPowerDumpTerminates ==
    \A i \in 1..Len(call.execs) :
        call.execs[i].id = "GET_WIPHY" => call.execs[i].out.kind # "hang"


\* C38: getChanMode(label).width is 0 exactly when label matches no entry
\* of the table (no table label, "NOHT" included, resolves to width 0), and
\* the frequency encoder puts no channel width for a label that matches no
\* entry.
C38_ZeroWidthIffUnrecognized ==
    /\ fn.op = "getChanMode" => (fn.out.width = 0 <=> EntriesNamed(fn.in) = {})
    /\ (fn.op = "setFrequencyHandler" /\ EntriesNamed(fn.in[2]) = {})
           => AttrVals(fn.out, "CHANNEL_WIDTH") = {}


\* C39: frequencyToChannel never returns a negative channel number: the
\* result is at least 0 for every frequency, 14 for 2484, 2 for 5935 and 0
\* for every frequency below 1000.
C39_ChannelNeverNegative ==
    fn.op = "frequencyToChannel" =>
        /\ fn.out >= 0
        /\ fn.in = 2484 => fn.out = 14
        /\ fn.in = 5935 => fn.out = 2
        /\ fn.in < 1000 => fn.out = 0


\* C40: createInterface(name, type, mac, phy) returns 0 only if its
\* NEW_INTERFACE exchange returned 0 and the kernel then has an interface of
\* that name with the requested type; an interface that existed before the
\* call does not make a rejected creation a success.
C40_CreateSucceedsOnlyIfCreated ==
    (call.op = "createInterface" /\ call.end = "ret" /\ call.val = 0) =>
        /\ call.execs[1].id = "NEW_INTERFACE"
        /\ call.execs[1].out.kind = "ret"
        /\ call.execs[1].out.val = 0
        /\ kern[call.name].exists
        /\ kern[call.name].type \in AttrVals(call.execs[1].attrs, "IFTYPE")

====
